---- MODULE Spec2Model ----
(***************************************************************************)
(* A model of three files of lumibot:                                      *)
(*                                                                         *)
(*   - strategies/drift_rebalancer.py: DriftCalculationLogic (the drift    *)
(*     table), LimitOrderRebalanceLogic.rebalance() (sell pass, pause,     *)
(*     cash refresh, buy pass) and DriftRebalancer.on_trading_iteration;   *)
(*   - brokers/ccxt.py: Ccxt._submit_order (normalisation, limit checks,   *)
(*     transmission) and Ccxt.cancel_order;                                *)
(*   - data_sources/interactive_brokers_rest_data.py: the request          *)
(*     executors get_from_endpoint, post_to_endpoint, delete_to_endpoint   *)
(*     of InteractiveBrokersRESTData, and its session: start,              *)
(*     fetch_account_id, is_authenticated, ping_iserver, ping_portfolio,   *)
(*     and its data methods get_market_snapshot, get_quote and             *)
(*     get_open_orders.                                                    *)
(*                                                                         *)
(* Numbers.  Python's Decimal values are modelled by exact integers on a   *)
(* fixed grid:                                                             *)
(*   - money (current_value, target_value, cash) counts 1/WeightDen of a   *)
(*     currency unit, so that target_weight * total_value is exact;        *)
(*   - a limit price counts 1/LimitDen of a currency unit, so that         *)
(*     last_price * (1 +/- acceptable_slippage / 10000) is exact;          *)
(*   - an order quantity or price of the ccxt broker counts 1/10 of a      *)
(*     unit (one decimal place), and a precision is the pair (coef, exp)   *)
(*     that Decimal(str(precision)) has.                                   *)
(*   - a weight or a drift is a Decimal proper: a coefficient and an       *)
(*     exponent, rounded to the precision of the decimal context as        *)
(*     Python rounds the result of a division or a subtraction.            *)
(* The quotients of rebalance() are used only through their truncation to  *)
(* whole units, which the rounding of the context does not reach.          *)
(***************************************************************************)
EXTENDS Integers, Sequences, FiniteSets, TLC

VARIABLES
    \* ---- LimitOrderRebalanceLogic ----
    pc,               \* position of the strategy code: idle; iteration, threshold,
                      \* skipped (on_trading_iteration); sell, refresh, buy, done,
                      \* aborted_in_sell, aborted_in_buy (rebalance); positions,
                      \* calculated, calculate_raised (DriftCalculationLogic)
    df,               \* the drift table handed to LimitOrderRebalanceLogic
    acceptable_slippage, \* the configured value, in 1/SlipDen
    is_backtesting,   \* strategy.is_backtesting
    idx,              \* the row the running iterrows() loop is at
    cash_position,    \* the local variable of rebalance() (money)
    broker_cash,      \* strategy.cash as read by get_current_cash_position
    orders,           \* the orders handed to strategy.submit_order, in order
    sleeps,           \* calls of time.sleep(fill_sleeptime)
    balance_reads,    \* calls of update_broker_balances(force_update=True)
    \* ---- DriftCalculationLogic, DriftRebalancer ----
    target_weights,   \* the target weights the calculator was built with
    positions,        \* what get_positions() answered in on_trading_iteration
    absolute_drift_threshold, \* the configured value, in 1/WeightDen
    \* ---- Ccxt._submit_order ----
    cpc,              \* ready, returned
    market,           \* api.markets[order.coin]
    order,            \* the Order object of the last call
    before,           \* the same object as it was when the last call began
    verdict,          \* how validation of the last call ended
    before_verdict,   \* verdict of the previous call on the same object
    outcome,          \* what the last call did: rejected, raised, submitted, errored
    sent,             \* the arguments of api.create_order in the last call
    broker_answer,    \* what api.create_order did in the last call
    returned,         \* what the last call returned
    passes,           \* calls of _submit_order on the current Order object
    cancel_response,  \* what api.cancel_order did in the last cancel_order call
    \* ---- InteractiveBrokersRESTData: one call of a request executor ----
    epc,              \* idle; running, returned
    request,          \* the arguments of the call
    frame,            \* the locals of the innermost frame of the call
    answers,          \* what the gateway did on each attempt of the call
    api_result,       \* what the call returned
    \* ---- InteractiveBrokersRESTData: the session ----
    spc,              \* idle; start, authenticating, fetching, suppressing
                      \* (start), ready, pinging (ping_iserver, ping_portfolio)
    now,              \* datetime.now(), in seconds
    running_on_server, \* self.running_on_server
    docker_installed, \* whether "docker --version" exits with 0
    account_id,       \* self.account_id
    last_iserver_ping, \* self.last_iserver_ping, None while the attribute is absent
    last_portfolio_ping, \* self.last_portfolio_ping, likewise
    start_return,     \* the line at which start() returned
    authenticated,    \* is_authenticated() has returned True in start()
    probed_at,        \* per category, when ping_* last sent its probe
    ping_call,        \* the running, or the last, ping_* call
    data_response,    \* what the last executor call of a data method returned
    \* ---- InteractiveBrokersRESTData.get_market_snapshot, get_quote ----
    qpc,              \* idle; fetching, returned (get_market_snapshot), quoted,
                      \* quote_raised (get_quote)
    fields,           \* the field names asked for
    retries,          \* the local variable of get_market_snapshot
    missing_fields,   \* likewise
    snapshot,         \* likewise: response
    snapshot_sleeps,  \* calls of time.sleep(5) in get_market_snapshot
    output,           \* what get_market_snapshot returned
    quote,            \* what get_quote returned or raised
    \* ---- InteractiveBrokersRESTData.get_open_orders ----
    opc,              \* idle; called, fetching, returned, raised
    last_orders_ping, \* seconds since self.last_orders_ping, None while absent
    orders_slept,     \* seconds of time.sleep() in the call
    orders_response,  \* what the last fetch returned
    orders_fetches,   \* calls of func() in the call
    open_orders       \* what the call returned

rebVars == <<pc, df, acceptable_slippage, is_backtesting, idx, cash_position,
             broker_cash, orders, sleeps, balance_reads>>
stratVars == <<target_weights, positions, absolute_drift_threshold>>
ccxtVars == <<cpc, market, order, before, verdict, before_verdict, outcome,
              sent, broker_answer, returned, passes, cancel_response>>
endpointVars == <<epc, request, frame, answers, api_result>>
sessionVars == <<spc, now, running_on_server, docker_installed, account_id,
                 last_iserver_ping, last_portfolio_ping, start_return,
                 authenticated, probed_at, ping_call, data_response>>
snapVars == <<qpc, fields, retries, missing_fields, snapshot, snapshot_sleeps,
              output, quote>>
ordVars == <<opc, last_orders_ping, orders_slept, orders_response, orders_fetches,
             open_orders>>
dataVars == <<snapVars, ordVars>>
ibVars == <<endpointVars, sessionVars, dataVars>>
vars == <<rebVars, stratVars, ccxtVars, ibVars>>

\* A Python value that may be None: None is the empty tuple, a value v is
\* the tuple <<v>>.
None == <<>>
Some(v) == <<v>>
Val(x) == x[1]

----------------------------------------------------------------------------
(* Arithmetic helpers *)

Abs(x) == IF x < 0 THEN -x ELSE x

Min(a, b) == IF a <= b THEN a ELSE b

\* Decimal division followed by quantize(Decimal('1'), rounding=ROUND_DOWN):
\* the quotient n/d truncated toward zero (d # 0).
TruncDiv(n, d) ==
    LET q == Abs(n) \div Abs(d)
    IN  IF (n < 0) = (d < 0) THEN q ELSE -q

RECURSIVE SumValues(_)
SumValues(rows) ==
    IF rows = <<>> THEN 0
    ELSE Head(rows).current_value + SumValues(Tail(rows))

----------------------------------------------------------------------------
(* DriftCalculationLogic *)

\* Denominator of a target weight: the weights of the model are tenths.
WeightDen == 10

\* Money of the model counts 1/WeightDen of a currency unit.
Money(units) == units * WeightDen

\* Significant digits of the decimal context (getcontext().prec).  Python's
\* default is 28; the model keeps fewer so that coefficients stay small.
DecimalPrec == 4

RECURSIVE Pow10(_)
Pow10(k) == IF k <= 0 THEN 1 ELSE 10 * Pow10(k - 1)

\* A Decimal: the value c * 10^e.  Decimals compare by value, so the model
\* keeps one representative of each value: no trailing zero in c, and 0 is
\* <<0, 0>>.
RECURSIVE Dec(_, _)
Dec(c, e) ==
    IF c = 0 THEN [c |-> 0, e |-> 0]
    ELSE IF c % 10 = 0 THEN Dec(c \div 10, e + 1)
    ELSE [c |-> c, e |-> e]

DecZero == Dec(0, 0)

\* A count of 1/WeightDen (a weight, a threshold) as a Decimal.
DecTenths(k) == Dec(k, -1)

RECURSIVE NumDigits(_)
NumDigits(n) == IF n < 10 THEN 1 ELSE 1 + NumDigits(n \div 10)

\* n/d (n >= 0, d > 0) rounded to an integer, ties to the even neighbour.
RoundHalfEven(n, d) ==
    LET q == n \div d
        r == n % d
    IN  IF 2 * r < d THEN q
        ELSE IF 2 * r > d THEN q + 1
        ELSE IF q % 2 = 0 THEN q ELSE q + 1

\* The rounding of the context: c * 10^e kept to DecimalPrec digits.
DecRound(c, e) ==
    LET digits == NumDigits(Abs(c))
        drop == digits - DecimalPrec
        kept == RoundHalfEven(Abs(c), Pow10(drop))
    IN  IF drop <= 0 THEN Dec(c, e)
        ELSE Dec(IF c < 0 THEN -kept ELSE kept, e + drop)

\* Long division of a by b (a >= 0, b > 0): q and r are the quotient and the
\* remainder of a * 10^k by b.  Stops when the quotient is exact or has
\* DecimalPrec digits, and rounds on the remainder.
RECURSIVE DivDigits(_, _, _, _)
DivDigits(q, r, k, b) ==
    IF r = 0 THEN DecRound(q, -k)
    ELSE IF q >= Pow10(DecimalPrec - 1)
    THEN Dec(IF 2 * r > b \/ (2 * r = b /\ q % 2 = 1) THEN q + 1 ELSE q, -k)
    ELSE DivDigits(q * 10 + (r * 10) \div b, (r * 10) % b, k + 1, b)

\* DecDiv keeping one digit less than the context has.
DecDivShort(n, d) ==
    LET quotient == DivDigits(Abs(n) \div Abs(d), Abs(n) % Abs(d), 0, Abs(d))
        short == IF NumDigits(quotient.c) >= DecimalPrec
                 THEN Dec(RoundHalfEven(quotient.c, 10), quotient.e + 1)
                 ELSE quotient
    IN  IF (n < 0) = (d < 0) THEN short
        ELSE Dec(-short.c, short.e)

\* Decimal(n) / Decimal(d) for integers n and d # 0 (the quotient of two
\* amounts of money is the quotient of their counts).
DecDiv(n, d) ==
    LET quotient == DivDigits(Abs(n) \div Abs(d), Abs(n) % Abs(d), 0, Abs(d))
    IN  IF (n < 0) = (d < 0) THEN quotient
        ELSE Dec(-quotient.c, quotient.e)

\* The coefficient of x at the exponent e (e <= x.e).
Aligned(x, e) == x.c * Pow10(x.e - e)

\* Decimal subtraction and addition: exact, then rounded by the context.
DecSub(x, y) ==
    LET e == Min(x.e, y.e)
    IN  DecRound(Aligned(x, e) - Aligned(y, e), e)

DecAdd(x, y) ==
    LET e == Min(x.e, y.e)
    IN  DecRound(Aligned(x, e) + Aligned(y, e), e)

DecAbs(x) == [c |-> Abs(x.c), e |-> x.e]

\* x < y and x <= y on Decimals.
DecLess(x, y) ==
    LET e == Min(x.e, y.e)
    IN  Aligned(x, e) < Aligned(y, e)

DecLessEq(x, y) == ~DecLess(y, x)

\* One row of the DataFrame.
DriftRow(symbol, is_quote, quantity, value, weight) ==
    [symbol           |-> symbol,
     is_quote_asset   |-> is_quote,
     current_quantity |-> quantity,
     current_value    |-> value,
     current_weight   |-> DecZero,
     target_weight    |-> weight,
     target_value     |-> 0,
     absolute_drift   |-> DecZero]

\* __init__: one row per target weight, in the order of the dict.
\* weights is a sequence of <<symbol, weight in 1/WeightDen>>.
NewDriftTable(weights) ==
    [i \in 1..Len(weights) |->
        DriftRow(weights[i][1], FALSE, 0, 0, weights[i][2])]

HasSymbol(table, symbol) == \E i \in 1..Len(table) : table[i].symbol = symbol

\* add_position without the test of line 27: the row is always appended.
AddPositionAppends(table, symbol, is_quote, quantity, value) ==
    Append(table, DriftRow(symbol, is_quote, quantity, value, 0))

\* add_position: overwrite the rows of that symbol, or append a row.
AddPosition(table, symbol, is_quote, quantity, value) ==
    IF HasSymbol(table, symbol)
    THEN [i \in 1..Len(table) |->
            IF table[i].symbol = symbol
            THEN [table[i] EXCEPT !.is_quote_asset = is_quote,
                                  !.current_quantity = quantity,
                                  !.current_value = value]
            ELSE table[i]]
    ELSE Append(table, DriftRow(symbol, is_quote, quantity, value, 0))

\* The positions of a portfolio added one after the other.
\* A position is [symbol, is_quote_asset, quantity, value].
RECURSIVE AddPositions(_, _)
AddPositions(table, ps) ==
    IF ps = <<>> THEN table
    ELSE AddPositions(
            AddPosition(table, Head(ps).symbol, Head(ps).is_quote_asset,
                        Head(ps).quantity, Head(ps).value),
            Tail(ps))

\* calculate_drift_row without the branch of the quote asset.
CalculateDriftRowNoQuote(row) ==
    IF row.current_quantity > 0 /\ row.target_weight = 0 THEN Dec(-1, 0)
    ELSE IF row.current_quantity = 0 /\ row.target_weight > 0 THEN Dec(1, 0)
    ELSE DecSub(DecTenths(row.target_weight), row.current_weight)

\* calculate_drift_row without the branch that sells a holding out.
CalculateDriftRowNoSellAll(row) ==
    IF row.is_quote_asset THEN DecZero
    ELSE IF row.current_quantity = 0 /\ row.target_weight > 0 THEN Dec(1, 0)
    ELSE DecSub(DecTenths(row.target_weight), row.current_weight)

\* calculate_drift_row without the branch that buys a new holding.
CalculateDriftRowNoBuyAll(row) ==
    IF row.is_quote_asset THEN DecZero
    ELSE IF row.current_quantity > 0 /\ row.target_weight = 0 THEN Dec(-1, 0)
    ELSE DecSub(DecTenths(row.target_weight), row.current_weight)

\* calculate_drift_row adding the two weights in its last branch.
CalculateDriftRowSum(row) ==
    IF row.is_quote_asset THEN DecZero
    ELSE IF row.current_quantity > 0 /\ row.target_weight = 0 THEN Dec(-1, 0)
    ELSE IF row.current_quantity = 0 /\ row.target_weight > 0 THEN Dec(1, 0)
    ELSE DecAdd(DecTenths(row.target_weight), row.current_weight)

\* calculate_drift_row, given the row with its current_weight filled in.
CalculateDriftRow(row) ==
    IF row.is_quote_asset THEN DecZero
    ELSE IF row.current_quantity > 0 /\ row.target_weight = 0 THEN Dec(-1, 0)
    ELSE IF row.current_quantity = 0 /\ row.target_weight > 0 THEN Dec(1, 0)
    ELSE DecSub(DecTenths(row.target_weight), row.current_weight)

\* calculate() divides by total_value: it raises when the total is 0.
CalculateRaises(table) == SumValues(table) = 0

\* calculate() for a total other than 0.
Calculate(table) ==
    LET total_value == SumValues(table)
        weighted == [i \in 1..Len(table) |->
            [table[i] EXCEPT
                !.current_weight = DecDiv(table[i].current_value, total_value),
                !.target_value = (table[i].target_weight * total_value) \div WeightDen]]
    IN  [i \in 1..Len(table) |->
            [weighted[i] EXCEPT !.absolute_drift = CalculateDriftRow(weighted[i])]]

\* Comparisons of absolute_drift as rebalance() makes them.
DriftIsMinusOne(row) == row.absolute_drift = Dec(-1, 0)
DriftIsNegative(row) == row.absolute_drift.c < 0
DriftIsPositive(row) == row.absolute_drift.c > 0

----------------------------------------------------------------------------
(* LimitOrderRebalanceLogic: the inputs of the model *)

\* acceptable_slippage counts 1/SlipDen: 0 and 0.5.
SlipDen == 10
Slippages == {0, 5}

\* A limit price counts 1/LimitDen of a currency unit: calculate_limit_price
\* divides acceptable_slippage by 10000.
SlippageDivisor == 10000
LimitDen == SlippageDivisor * SlipDen

\* What strategy.get_last_price answers during rebalance(): a price, or the
\* failure value -1 of InteractiveBrokersRESTData.get_last_price.
FailedPrice == -1
LastPrices == {FailedPrice, 1, 2}

\* strategy.cash at the cash refresh, in currency units (a margin account
\* reports a negative balance).
CashBalances == {-5, 0, 7, 40}

QuoteSymbol == "USD"

\* target_weights of the strategy, as ordered dicts.
TargetWeightChoices ==
    { << <<"SPY", 6>>, <<"TLT", 4>> >>,
      << <<"TLT", 4>>, <<"SPY", 6>> >>,
      << <<"SPY", 10>>, <<"TLT", 0>> >>,
      << <<"SPY", 3>>, <<"TLT", 3>>, <<"GLD", 4>> >> }

\* The positions the broker reports, valued as on_trading_iteration values
\* them: the quote asset at its quantity, an asset at last price * quantity.
Held(symbol, quantity, price) ==
    [symbol |-> symbol, is_quote_asset |-> FALSE, quantity |-> quantity,
     value |-> Money(price * quantity)]
HeldCash(quantity) ==
    [symbol |-> QuoteSymbol, is_quote_asset |-> TRUE, quantity |-> quantity,
     value |-> Money(quantity)]
NotHeld == <<>>

HoldingChoices ==
    [USD : {NotHeld} \cup {<<HeldCash(q)>> : q \in {10, 40}},
     SPY : {NotHeld} \cup {<<Held("SPY", q, p)>> : q \in {5, 10}, p \in {1, 2}},
     TLT : {NotHeld} \cup {<<Held("TLT", q, p)>> : q \in {5, 10}, p \in {1, 2}},
     GLD : {NotHeld} \cup {<<Held("GLD", 10, 1)>>}]

Positions(h) == h.USD \o h.SPY \o h.TLT \o h.GLD

\* The tables calculate() returns for these inputs.
DriftTables ==
    { Calculate(AddPositions(NewDriftTable(tw), Positions(h))) :
        <<tw, h>> \in { x \in TargetWeightChoices \X HoldingChoices :
            ~CalculateRaises(AddPositions(NewDriftTable(x[1]), Positions(x[2]))) } }

----------------------------------------------------------------------------
(* LimitOrderRebalanceLogic: the operations *)

\* calculate_limit_price, as a count of 1/LimitDen.
calculate_limit_price(last_price, side, slippage) ==
    IF side = "sell" THEN last_price * (LimitDen - slippage)
    ELSE last_price * (LimitDen + slippage)

\* (value / limit_price).quantize(Decimal('1'), rounding=ROUND_DOWN) for a
\* value in money and a limit price in 1/LimitDen.
WholeUnits(value, limit_price) == TruncDiv(value * LimitDen, WeightDen * limit_price)

\* place_limit_order: the order created and handed to strategy.submit_order.
\* row and cash_before are not fields of the order: they record the row of the
\* table the order was placed for and the value cash_position had then.
LimitOrder(symbol, quantity, limit_price, side, row, cash) ==
    [symbol |-> symbol, quantity |-> quantity, limit_price |-> limit_price,
     side |-> side, row |-> row, cash_before |-> cash]

\* SellPassOrders as a single loop over the table would do it: the buy of a
\* row is placed in the same iteration as the sells.
SellPassOrdersSinglePass(table, i, last_price, slippage) ==
    LET row == table[i]
        limit_price == calculate_limit_price(last_price, "sell", slippage)
    IN  IF DriftIsMinusOne(row)
        THEN <<LimitOrder(row.symbol, row.current_quantity, limit_price, "sell", i, 0)>>
        ELSE IF DriftIsNegative(row)
        THEN <<LimitOrder(row.symbol,
                          WholeUnits(row.current_value - row.target_value, limit_price),
                          limit_price, "sell", i, 0)>>
        ELSE IF DriftIsPositive(row)
        THEN <<LimitOrder(row.symbol,
                          WholeUnits(row.target_value - row.current_value, limit_price),
                          limit_price, "buy", i, 0)>>
        ELSE <<>>

\* SellPassOrders computing every sell quantity from the values.
SellPassOrdersFromValues(table, i, last_price, slippage) ==
    LET row == table[i]
        limit_price == calculate_limit_price(last_price, "sell", slippage)
    IN  IF DriftIsNegative(row)
        THEN <<LimitOrder(row.symbol,
                          WholeUnits(row.current_value - row.target_value, limit_price),
                          limit_price, "sell", i, 0)>>
        ELSE <<>>

\* SellPassOrders rounding the quantity of a partial sell away from zero.
SellPassOrdersRoundedUp(table, i, last_price, slippage) ==
    LET row == table[i]
        limit_price == calculate_limit_price(last_price, "sell", slippage)
        value == row.current_value - row.target_value
        whole == WholeUnits(value, limit_price)
    IN  IF DriftIsMinusOne(row)
        THEN <<LimitOrder(row.symbol, row.current_quantity, limit_price, "sell", i, 0)>>
        ELSE IF DriftIsNegative(row)
        THEN <<LimitOrder(row.symbol,
                          IF whole * WeightDen * limit_price = value * LimitDen
                             THEN whole
                             ELSE IF limit_price > 0 THEN whole + 1 ELSE whole - 1,
                          limit_price, "sell", i, 0)>>
        ELSE <<>>

\* One iteration of the first loop: the orders it places for table row i when
\* get_last_price answers last_price.
SellPassOrders(table, i, last_price, slippage) ==
    LET row == table[i]
        limit_price == calculate_limit_price(last_price, "sell", slippage)
    IN  IF DriftIsMinusOne(row)
        THEN <<LimitOrder(row.symbol, row.current_quantity, limit_price, "sell", i, 0)>>
        ELSE IF DriftIsNegative(row)
        THEN <<LimitOrder(row.symbol,
                          WholeUnits(row.current_value - row.target_value, limit_price),
                          limit_price, "sell", i, 0)>>
        ELSE <<>>

\* BuyQuantity without the cap at the cash left.
BuyQuantityUncapped(row, cash, limit_price) ==
    WholeUnits(row.target_value - row.current_value, limit_price)

\* The quantity the second loop computes for a row.
BuyQuantity(row, cash, limit_price) ==
    WholeUnits(Min(row.target_value - row.current_value, cash), limit_price)

\* One iteration of the second loop: the orders it places for table row i.
BuyPassOrders(table, i, last_price, slippage, cash) ==
    LET row == table[i]
        limit_price == calculate_limit_price(last_price, "buy", slippage)
        quantity == BuyQuantity(row, cash, limit_price)
    IN  IF DriftIsPositive(row) /\ quantity > 0
        THEN <<LimitOrder(row.symbol, quantity, limit_price, "buy", i, cash)>>
        ELSE <<>>

\* CashAfterBuy decrementing by the uncapped order value.
CashAfterBuyUncapped(table, i, last_price, slippage, cash) ==
    LET row == table[i]
        limit_price == calculate_limit_price(last_price, "buy", slippage)
        order_value == row.target_value - row.current_value
    IN  IF DriftIsPositive(row) /\ BuyQuantity(row, cash, limit_price) > 0
        THEN cash - order_value
        ELSE cash

\* CashAfterBuy decrementing by what the order costs at its limit price.
CashAfterBuySpent(table, i, last_price, slippage, cash) ==
    LET row == table[i]
        limit_price == calculate_limit_price(last_price, "buy", slippage)
        quantity == BuyQuantity(row, cash, limit_price)
    IN  IF DriftIsPositive(row) /\ quantity > 0
        THEN cash - (quantity * limit_price * WeightDen) \div LimitDen
        ELSE cash

\* cash_position after that iteration.
CashAfterBuy(table, i, last_price, slippage, cash) ==
    LET row == table[i]
        limit_price == calculate_limit_price(last_price, "buy", slippage)
        order_value == row.target_value - row.current_value
    IN  IF DriftIsPositive(row) /\ BuyQuantity(row, cash, limit_price) > 0
        THEN cash - Min(order_value, cash)
        ELSE cash

RebInit ==
    /\ pc = "sell"
    /\ df \in DriftTables
    /\ acceptable_slippage \in Slippages
    /\ is_backtesting \in BOOLEAN
    /\ idx = 1
    /\ cash_position = 0
    /\ broker_cash = 0
    /\ orders = <<>>
    /\ sleeps = 0
    /\ balance_reads = 0

RebIdle ==
    /\ pc = "idle"
    /\ df = <<>>
    /\ acceptable_slippage = 0
    /\ is_backtesting = FALSE
    /\ idx = 1
    /\ cash_position = 0
    /\ broker_cash = 0
    /\ orders = <<>>
    /\ sleeps = 0
    /\ balance_reads = 0

StratIdle ==
    /\ target_weights = <<>>
    /\ positions = <<>>
    /\ absolute_drift_threshold = 0

\* A row of the sell pass that reads no price.
SellRowSkips(row) == ~DriftIsMinusOne(row) /\ ~DriftIsNegative(row)

\* for index, row in self.df.iterrows(): (the first loop)
SellRow ==
    /\ pc = "sell"
    /\ idx <= Len(df)
    /\ \E last_price \in LastPrices :
          /\ SellRowSkips(df[idx]) => last_price = 1
          /\ orders' = orders \o SellPassOrders(df, idx, last_price, acceptable_slippage)
    /\ idx' = idx + 1
    /\ UNCHANGED <<pc, df, acceptable_slippage, is_backtesting, cash_position,
                   broker_cash, sleeps, balance_reads>>
    /\ UNCHANGED <<stratVars, ccxtVars, ibVars>>

\* SettlementPause sleeping in a backtest as well.
SettlementPauseAlways ==
    /\ pc = "sell"
    /\ idx > Len(df)
    /\ sleeps' = sleeps + 1
    /\ pc' = "refresh"
    /\ UNCHANGED <<df, acceptable_slippage, is_backtesting, idx, cash_position,
                   broker_cash, orders, balance_reads>>
    /\ UNCHANGED <<stratVars, ccxtVars, ibVars>>

\* if not self.strategy.is_backtesting: time.sleep(self.fill_sleeptime)
SettlementPause ==
    /\ pc = "sell"
    /\ idx > Len(df)
    /\ sleeps' = IF is_backtesting THEN sleeps ELSE sleeps + 1
    /\ pc' = "refresh"
    /\ UNCHANGED <<df, acceptable_slippage, is_backtesting, idx, cash_position,
                   broker_cash, orders, balance_reads>>
    /\ UNCHANGED <<stratVars, ccxtVars, ibVars>>

\* cash_position = self.get_current_cash_position()
CashRefresh ==
    /\ pc = "refresh"
    /\ \E balance \in CashBalances :
          /\ broker_cash' = Money(balance)
          /\ cash_position' = Money(balance)
    /\ balance_reads' = balance_reads + 1
    /\ pc' = "buy"
    /\ idx' = 1
    /\ UNCHANGED <<df, acceptable_slippage, is_backtesting, orders, sleeps>>
    /\ UNCHANGED <<stratVars, ccxtVars, ibVars>>

\* for index, row in self.df.iterrows(): (the second loop)
BuyRow ==
    /\ pc = "buy"
    /\ idx <= Len(df)
    /\ \E last_price \in LastPrices :
          /\ ~DriftIsPositive(df[idx]) => last_price = 1
          /\ orders' = orders \o BuyPassOrders(df, idx, last_price,
                                               acceptable_slippage, cash_position)
          /\ cash_position' = CashAfterBuy(df, idx, last_price,
                                           acceptable_slippage, cash_position)
    /\ idx' = idx + 1
    /\ UNCHANGED <<pc, df, acceptable_slippage, is_backtesting, broker_cash,
                   sleeps, balance_reads>>
    /\ UNCHANGED <<stratVars, ccxtVars, ibVars>>

\* Decimal(self.strategy.get_last_price(symbol)) raises (get_last_price
\* raises on a price it cannot convert, Decimal() on an answer of None):
\* nothing in rebalance() catches it.
LastPriceRaises ==
    /\ pc \in {"sell", "buy"}
    /\ idx <= Len(df)
    /\ pc = "sell" => ~SellRowSkips(df[idx])
    /\ pc = "buy" => DriftIsPositive(df[idx])
    /\ pc' = IF pc = "sell" THEN "aborted_in_sell" ELSE "aborted_in_buy"
    /\ UNCHANGED <<df, acceptable_slippage, is_backtesting, idx, cash_position,
                   broker_cash, orders, sleeps, balance_reads>>
    /\ UNCHANGED <<stratVars, ccxtVars, ibVars>>

\* rebalance() returns.
RebalanceReturns ==
    /\ pc = "buy"
    /\ idx > Len(df)
    /\ pc' = "done"
    /\ UNCHANGED <<df, acceptable_slippage, is_backtesting, idx, cash_position,
                   broker_cash, orders, sleeps, balance_reads>>
    /\ UNCHANGED <<stratVars, ccxtVars, ibVars>>

RebNext ==
    \/ SellRow
    \/ SettlementPause
    \/ CashRefresh
    \/ BuyRow
    \/ LastPriceRaises
    \/ RebalanceReturns

----------------------------------------------------------------------------
(* DriftRebalancer.on_trading_iteration *)

\* absolute_drift_threshold, in 1/WeightDen: 0.2, 0.6 and 1.0.
Thresholds == {2, 6, 10}

\* What get_positions() answers, valued at the last prices: the holdings of
\* HoldingChoices, and SPY and TLT worth 30/70, 40/60 and 50/50.
IterationHoldings ==
    HoldingChoices \cup
    { [USD |-> NotHeld, SPY |-> <<Held("SPY", q, 1)>>,
       TLT |-> <<Held("TLT", 100 - q, 1)>>, GLD |-> NotHeld] : q \in {30, 40, 50} }

\* (df["absolute_drift"].abs() > self.absolute_drift_threshold).any(), with
\* >= in the place of >.
ExceedsThresholdOrEquals(table, threshold) ==
    \E i \in 1..Len(table) :
        DecLessEq(DecTenths(threshold), DecAbs(table[i].absolute_drift))

\* (df["absolute_drift"].abs() > self.absolute_drift_threshold).any()
ExceedsThreshold(table, threshold) ==
    \E i \in 1..Len(table) :
        DecLess(DecTenths(threshold), DecAbs(table[i].absolute_drift))

\* The strategy after an initialize() without the check of line 181.
IterationInitAnyThreshold ==
    /\ pc = "iteration"
    /\ target_weights \in TargetWeightChoices
    /\ absolute_drift_threshold \in Thresholds
    /\ acceptable_slippage \in Slippages
    /\ acceptable_slippage * WeightDen < absolute_drift_threshold * SlipDen
    /\ is_backtesting \in BOOLEAN
    /\ positions = <<>>
    /\ df = <<>>
    /\ idx = 1
    /\ cash_position = 0
    /\ broker_cash = 0
    /\ orders = <<>>
    /\ sleeps = 0
    /\ balance_reads = 0

\* The strategy after initialize(): its sanity checks passed.
IterationInit ==
    /\ pc = "iteration"
    /\ target_weights \in TargetWeightChoices
    /\ absolute_drift_threshold \in Thresholds
    /\ acceptable_slippage \in Slippages
    /\ acceptable_slippage * WeightDen < absolute_drift_threshold * SlipDen
    /\ absolute_drift_threshold < WeightDen
    /\ is_backtesting \in BOOLEAN
    /\ positions = <<>>
    /\ df = <<>>
    /\ idx = 1
    /\ cash_position = 0
    /\ broker_cash = 0
    /\ orders = <<>>
    /\ sleeps = 0
    /\ balance_reads = 0

\* Lines 191-214: the positions are read, valued and added to a new
\* calculator, and calculate() is called; its exception leaves
\* on_trading_iteration.
BuildDriftTable ==
    /\ pc = "iteration"
    /\ \E h \in IterationHoldings :
          LET table == AddPositions(NewDriftTable(target_weights), Positions(h))
          IN  /\ positions' = Positions(h)
              /\ IF CalculateRaises(table)
                 THEN pc' = "calculate_raised" /\ df' = df
                 ELSE pc' = "threshold" /\ df' = Calculate(table)
    /\ UNCHANGED <<acceptable_slippage, is_backtesting, idx, cash_position,
                   broker_cash, orders, sleeps, balance_reads>>
    /\ UNCHANGED <<target_weights, absolute_drift_threshold>>
    /\ UNCHANGED <<ccxtVars, ibVars>>

\* Lines 217-226: rebalance() is called when a drift exceeds the threshold.
ThresholdCheck ==
    /\ pc = "threshold"
    /\ pc' = IF ExceedsThreshold(df, absolute_drift_threshold)
             THEN "sell" ELSE "skipped"
    /\ UNCHANGED <<df, acceptable_slippage, is_backtesting, idx, cash_position,
                   broker_cash, orders, sleeps, balance_reads>>
    /\ UNCHANGED <<stratVars, ccxtVars, ibVars>>

IterationNext ==
    \/ BuildDriftTable
    \/ ThresholdCheck
    \/ RebNext

----------------------------------------------------------------------------
(* DriftCalculationLogic: the object, its inputs and its calls *)

\* Target weights the calculator is built with: those of the strategy, a
\* quote asset with a target, and a weight above 1.
DriftTargetChoices ==
    TargetWeightChoices \cup
    { << <<QuoteSymbol, 5>>, <<"SPY", 5>> >>,
      << <<"SPY", 15>>, <<"TLT", 0>> >> }

\* Quantity and value (in currency units) of the positions add_position is
\* called with: nothing held, long, a holding without a quantity, short.
QuantityValueChoices == { <<0, 0>>, <<5, 5>>, <<10, 5>>, <<0, 5>>, <<-5, -5>> }

DriftPositions ==
    { [symbol |-> symbol, is_quote_asset |-> is_quote,
       quantity |-> qv[1], value |-> Money(qv[2])] :
        symbol \in {QuoteSymbol, "SPY", "TLT"}, is_quote \in BOOLEAN,
        qv \in QuantityValueChoices }

DriftInit ==
    /\ pc = "positions"
    /\ target_weights \in DriftTargetChoices
    /\ df = NewDriftTable(target_weights)
    /\ positions = <<>>
    /\ absolute_drift_threshold = 0
    /\ acceptable_slippage = 0
    /\ is_backtesting = FALSE
    /\ idx = 1
    /\ cash_position = 0
    /\ broker_cash = 0
    /\ orders = <<>>
    /\ sleeps = 0
    /\ balance_reads = 0

\* add_position(symbol=..., is_quote_asset=..., current_quantity=...,
\* current_value=...)
AddPositionCall ==
    /\ pc = "positions"
    /\ \E p \in DriftPositions :
          df' = AddPosition(df, p.symbol, p.is_quote_asset, p.quantity, p.value)
    /\ UNCHANGED <<pc, acceptable_slippage, is_backtesting, idx, cash_position,
                   broker_cash, orders, sleeps, balance_reads>>
    /\ UNCHANGED <<stratVars, ccxtVars, ibVars>>

\* calculate() returns the table.
CalculateReturns ==
    /\ pc = "positions"
    /\ ~CalculateRaises(df)
    /\ df' = Calculate(df)
    /\ pc' = "calculated"
    /\ UNCHANGED <<acceptable_slippage, is_backtesting, idx, cash_position,
                   broker_cash, orders, sleeps, balance_reads>>
    /\ UNCHANGED <<stratVars, ccxtVars, ibVars>>

\* calculate() raises at the division by total_value, before it assigned
\* any column.
CalculateFails ==
    /\ pc = "positions"
    /\ CalculateRaises(df)
    /\ pc' = "calculate_raised"
    /\ UNCHANGED <<df, acceptable_slippage, is_backtesting, idx, cash_position,
                   broker_cash, orders, sleeps, balance_reads>>
    /\ UNCHANGED <<stratVars, ccxtVars, ibVars>>

DriftNext ==
    \/ AddPositionCall
    \/ CalculateReturns
    \/ CalculateFails

----------------------------------------------------------------------------
(* Ccxt._submit_order: the inputs of the model *)

\* Quantities and prices count 1/10 of a unit; a product of two (a notional
\* cost) counts 1/100.  A precision is Decimal(str(precision[...])): its
\* digits coef and its exponent exp, worth coef * 10^exp.
Precisions == { [coef |-> 1, exp |-> 0],      \* 1
                [coef |-> 5, exp |-> -1] }    \* 0.5

Bounds(min, max) == [min |-> min, max |-> max]

\* api.markets[order.coin].  number is the Python type ccxt gave the limits.
Markets ==
    [limits : [amount : {Bounds(a, b) : a \in {None, Some(10)}, b \in {None, Some(20)}},
               price  : {Bounds(a, b) : a \in {None, Some(10)}, b \in {None, Some(20)}},
               cost   : {Bounds(a, b) : a \in {None, Some(300)}, b \in {None, Some(500)}}],
     precision : [amount : Precisions, price : Precisions],
     number : {"float", "int"}]

PriceTypes == <<"limit_price", "stop_price", "stop_loss_price", "stop_loss_limit_price">>

\* An Order as the strategy creates it: no identifier, no broker payload.
NewOrder(quantity, limit_price, stop_price, stop_loss_price, stop_loss_limit_price) ==
    [quantity |-> quantity,
     limit_price |-> limit_price,
     stop_price |-> stop_price,
     stop_loss_price |-> stop_loss_price,
     stop_loss_limit_price |-> stop_loss_limit_price,
     identifier |-> None,
     status |-> "unprocessed",
     raw |-> None,
     error |-> None]

NewOrders ==
    { NewOrder(q, l, s, sl, sll) :
        q \in {None, Some(4), Some(15), Some(35)},
        l \in {None, Some(15), Some(35)},
        s \in {None, Some(4), Some(15)},
        sl \in {None, Some(4)},
        sll \in {None, Some(35)} }

\* What api.create_order does: it returns a response or raises.
Response(id, status) == [kind |-> "response", id |-> id, status |-> status]
Raises(what) == [kind |-> "raise", error |-> what]
BrokerAnswers == {Response(1, "open"), Raises("NetworkError")}

----------------------------------------------------------------------------
(* Ccxt._submit_order: the operations *)

\* 10^(exp + 1): the step, in tenths, of the grid quantize() rounds to.
GridOf(p) == IF p.exp = 0 THEN 10 ELSE 1

\* The worth of a precision, in tenths.
PrecisionValue(p) == p.coef * GridOf(p)

\* Quantize rounding to the next grid point above, also from a grid point.
QuantizeUp(x, p) == ((x \div GridOf(p)) + 1) * GridOf(p)

\* Decimal(x).quantize(Decimal(str(precision))): x rounded to the exponent of
\* the precision, ties to the even neighbour (the default context).
Quantize(x, p) ==
    LET g == GridOf(p)
        q == x \div g
        r == x % g
    IN  IF 2 * r < g THEN q * g
        ELSE IF 2 * r > g THEN (q + 1) * g
        ELSE IF q % 2 = 0 THEN q * g ELSE (q + 1) * g

\* Lines 220-227: the quantity converted in place.
NormalizeQuantity(o, m) ==
    IF o.quantity # None
    THEN [o EXCEPT !.quantity = Some(Quantize(Val(o.quantity), m.precision.amount))]
    ELSE o

\* AmountVerdict without the assertion on the maximum.
AmountVerdictNoMax(o, m) ==
    IF o.quantity = None THEN "passed"
    ELSE IF m.limits.amount.min # None /\ ~(Val(o.quantity) >= Val(m.limits.amount.min))
    THEN "BelowMinQuantity"
    ELSE "passed"

\* Lines 228-249: the two assertions on the quantity.
AmountVerdict(o, m) ==
    IF o.quantity = None THEN "passed"
    ELSE IF m.limits.amount.min # None /\ ~(Val(o.quantity) >= Val(m.limits.amount.min))
    THEN "BelowMinQuantity"
    ELSE IF m.limits.amount.max # None /\ ~(Val(o.quantity) <= Val(m.limits.amount.max))
    THEN "AboveMaxQuantity"
    ELSE "passed"

\* PriceVerdict without the two assertions on the cost.
PriceVerdictNoCost(o, price_type, m) ==
    LET price == Val(o[price_type])
    IN  IF m.limits.price.min # None /\ ~(price >= Val(m.limits.price.min))
        THEN "BelowMinPrice"
        ELSE IF m.limits.price.max # None /\ ~(price <= Val(m.limits.price.max))
        THEN "AbovePrice"
        ELSE "passed"

\* Lines 269-323: the four assertions on one converted price field.  The
\* product price * quantity is a TypeError when the quantity is None.
PriceVerdict(o, price_type, m) ==
    LET price == Val(o[price_type])
    IN  IF m.limits.price.min # None /\ ~(price >= Val(m.limits.price.min))
        THEN "BelowMinPrice"
        ELSE IF m.limits.price.max # None /\ ~(price <= Val(m.limits.price.max))
        THEN "AbovePrice"
        ELSE IF m.limits.cost.min # None /\ o.quantity = None
        THEN "TypeError"
        ELSE IF m.limits.cost.min # None
                /\ ~(price * Val(o.quantity) >= Val(m.limits.cost.min))
        THEN "BelowMinCost"
        ELSE IF m.limits.cost.max # None /\ o.quantity = None
        THEN "TypeError"
        ELSE IF m.limits.cost.max # None
                /\ ~(price * Val(o.quantity) <= Val(m.limits.cost.max))
        THEN "AboveMaxCost"
        ELSE "passed"

\* Lines 252-323: the loop over the price fields from the k-th on.  Gives the
\* order as the loop leaves it and how the loop ended.
RECURSIVE PriceLoop(_, _, _)
PriceLoop(o, m, k) ==
    IF k > Len(PriceTypes) THEN [order |-> o, verdict |-> "passed"]
    ELSE IF o[PriceTypes[k]] = None THEN PriceLoop(o, m, k + 1)
    ELSE LET converted ==
                [o EXCEPT ![PriceTypes[k]] =
                    Some(Quantize(Val(o[PriceTypes[k]]), m.precision.price))]
             v == PriceVerdict(converted, PriceTypes[k], m)
         IN  IF v = "passed" THEN PriceLoop(converted, m, k + 1)
             ELSE [order |-> converted, verdict |-> v]

\* Lines 214-323: normalisation and validation of an order.
Validate(o, m) ==
    LET converted == NormalizeQuantity(o, m)
        v == AmountVerdict(converted, m)
    IN  IF v = "passed" THEN PriceLoop(converted, m, 1)
        ELSE [order |-> converted, verdict |-> v]

LimitVerdicts == {"BelowMinQuantity", "AboveMaxQuantity", "BelowMinPrice",
                  "AbovePrice", "BelowMinCost", "AboveMaxCost"}

\* Whether writing the warning of a rejection raises: the two cost warnings
\* format limits['cost'][...] * order.quantity, and a float times a Decimal
\* is a TypeError.
WarningRaises(v, m) == v \in {"BelowMinCost", "AboveMaxCost"} /\ m.number = "float"

\* Lines 325-342: the arguments of api.create_order.  A stop price that is
\* falsy (0) is dropped from params.
CreateOrderArgs(o) ==
    [quantity |-> o.quantity,
     limit_price |-> o.limit_price,
     stopPrice |-> IF o.stop_price # None /\ Val(o.stop_price) # 0
                   THEN o.stop_price ELSE None]

\* Transmit with an except block that does not record the exception.
TransmitDropsError(o, answer) ==
    IF answer.kind = "response"
    THEN [o EXCEPT !.identifier = Some(answer.id), !.status = answer.status,
                   !.raw = Some(answer)]
    ELSE o

\* Transmit giving the order an identifier before the broker answered.
TransmitSetsIdentifierFirst(o, answer) ==
    IF answer.kind = "response"
    THEN [o EXCEPT !.identifier = Some(answer.id), !.status = answer.status,
                   !.raw = Some(answer)]
    ELSE [o EXCEPT !.identifier = Some(0), !.error = Some(answer.error)]

\* Lines 334-353: the try block around api.create_order.
Transmit(o, answer) ==
    IF answer.kind = "response"
    THEN [o EXCEPT !.identifier = Some(answer.id), !.status = answer.status,
                   !.raw = Some(answer)]
    ELSE [o EXCEPT !.error = Some(answer.error)]

\* _submit_order(order) as a whole: the order afterwards, what validation
\* found, what the call did, what it sent and what it returned.
SubmitOrderResult(o, m, answer) ==
    LET checked == Validate(o, m)
    IN  IF checked.verdict = "passed"
        THEN [order |-> Transmit(checked.order, answer),
              verdict |-> "passed",
              outcome |-> IF answer.kind = "response" THEN "submitted" ELSE "errored",
              sent |-> Some(CreateOrderArgs(checked.order)),
              broker_answer |-> Some(answer),
              returned |-> Some("order")]
        ELSE IF checked.verdict = "TypeError" \/ WarningRaises(checked.verdict, m)
        THEN [order |-> checked.order, verdict |-> checked.verdict,
              outcome |-> "raised", sent |-> None, broker_answer |-> None,
              returned |-> Some("TypeError")]
        ELSE [order |-> checked.order, verdict |-> checked.verdict,
              outcome |-> "rejected", sent |-> None, broker_answer |-> None,
              returned |-> None]

\* Calls of _submit_order on one Order object that the model follows.
MaxPasses == 2

CcxtInit ==
    /\ cpc = "ready"
    /\ market \in Markets
    /\ order = None
    /\ before = None
    /\ verdict = None
    /\ before_verdict = None
    /\ outcome = None
    /\ sent = None
    /\ broker_answer = None
    /\ returned = None
    /\ passes = 0
    /\ cancel_response = None

\* _submit_order is called with a new order.
SubmitOrder ==
    /\ cpc = "ready"
    /\ \E o \in NewOrders : \E answer \in BrokerAnswers :
          LET r == SubmitOrderResult(o, market, answer)
          IN  /\ before' = o
              /\ order' = r.order
              /\ verdict' = r.verdict
              /\ outcome' = r.outcome
              /\ sent' = r.sent
              /\ broker_answer' = r.broker_answer
              /\ returned' = r.returned
    /\ before_verdict' = None
    /\ passes' = 1
    /\ cpc' = "returned"
    /\ UNCHANGED <<market, cancel_response>>
    /\ UNCHANGED <<rebVars, stratVars, ibVars>>

\* _submit_order is called again with the Order object of the last call.
SubmitOrderAgain ==
    /\ cpc = "returned"
    /\ passes < MaxPasses
    /\ \E answer \in BrokerAnswers :
          LET r == SubmitOrderResult(order, market, answer)
          IN  /\ before' = order
              /\ order' = r.order
              /\ verdict' = r.verdict
              /\ outcome' = r.outcome
              /\ sent' = r.sent
              /\ broker_answer' = r.broker_answer
              /\ returned' = r.returned
    /\ before_verdict' = Some(verdict)
    /\ passes' = passes + 1
    /\ UNCHANGED <<cpc, market, cancel_response>>
    /\ UNCHANGED <<rebVars, stratVars, ibVars>>

\* The caller goes on to its next order.
CallerProceeds ==
    /\ cpc = "returned"
    /\ cpc' = "ready"
    /\ order' = None
    /\ before' = None
    /\ verdict' = None
    /\ before_verdict' = None
    /\ outcome' = None
    /\ sent' = None
    /\ broker_answer' = None
    /\ returned' = None
    /\ passes' = 0
    /\ UNCHANGED <<market, cancel_response>>
    /\ UNCHANGED <<rebVars, stratVars, ibVars>>

CcxtNext ==
    \/ SubmitOrder
    \/ SubmitOrderAgain
    \/ CallerProceeds

----------------------------------------------------------------------------
(* Ccxt.cancel_order *)

\* What api.cancel_order(order.identifier) does: it returns an identifier, the
\* order structure of the exchange (which holds the identifier), or None, or
\* it raises.
CancelResponses ==
    { [kind |-> "id", id |-> 1], [kind |-> "id", id |-> 2],
      [kind |-> "dict", id |-> 1], [kind |-> "dict", id |-> 2],
      [kind |-> "none", id |-> 0] }

\* order.identifier == response, as Python compares the two values: a dict
\* never equals an identifier, None equals None.
IdentifierEquals(identifier, response) ==
    \/ response.kind = "id" /\ identifier = Some(response.id)
    \/ response.kind = "none" /\ identifier = None

\* CancelOrderResult trusting the identifier inside an order structure.
CancelOrderMatchesPayloadId(o, response) ==
    IF response.kind \in {"id", "dict"} /\ o.identifier = Some(response.id)
    THEN [o EXCEPT !.status = "canceled"]
    ELSE o

\* Lines 359-361: the order after cancel_order got a response.
CancelOrderResult(o, response) ==
    IF IdentifierEquals(o.identifier, response)
    THEN [o EXCEPT !.status = "canceled"]
    ELSE o

\* The markets of the orders that cancel_order is called with.
CancelMarkets ==
    { m \in Markets : /\ m.limits.price = Bounds(None, None)
                      /\ m.limits.cost = Bounds(None, None)
                      /\ m.number = "int" }

\* The orders a strategy holds: as _submit_order left them.
TrackedOrders ==
    { SubmitOrderResult(o, m, answer).order :
        o \in NewOrders, m \in CancelMarkets, answer \in BrokerAnswers }

CancelInit ==
    /\ cpc = "tracked"
    /\ market = None
    /\ order \in TrackedOrders
    /\ before = None
    /\ verdict = None
    /\ before_verdict = None
    /\ outcome = None
    /\ sent = None
    /\ broker_answer = None
    /\ returned = None
    /\ passes = 0
    /\ cancel_response = None

\* cancel_order(order) when api.cancel_order returns.
CancelOrder ==
    /\ cpc \in {"tracked", "cancel_returned", "cancel_raised"}
    /\ \E response \in CancelResponses :
          /\ order' = CancelOrderResult(order, response)
          /\ cancel_response' = Some(response)
    /\ before' = order
    /\ cpc' = "cancel_returned"
    /\ UNCHANGED <<market, verdict, before_verdict, outcome, sent,
                   broker_answer, returned, passes>>
    /\ UNCHANGED <<rebVars, stratVars, ibVars>>

\* cancel_order(order) when api.cancel_order raises: the exception leaves
\* cancel_order before the comparison.
CancelOrderRaises ==
    /\ cpc \in {"tracked", "cancel_returned", "cancel_raised"}
    /\ cancel_response' = Some(Raises("NetworkError"))
    /\ before' = order
    /\ cpc' = "cancel_raised"
    /\ UNCHANGED <<market, order, verdict, before_verdict, outcome, sent,
                   broker_answer, returned, passes>>
    /\ UNCHANGED <<rebVars, stratVars, ibVars>>

CancelNext ==
    \/ CancelOrder
    \/ CancelOrderRaises

----------------------------------------------------------------------------
(* InteractiveBrokersRESTData: get_from_endpoint, post_to_endpoint,        *)
(* delete_to_endpoint                                                      *)

\* What the gateway does on one attempt: an HTTP status, a 200 whose body
\* says that the order doesn't exist (delete only), or
\* requests.exceptions.RequestException.
StatusAnswers == {"200", "404", "429", "500", "exception"}
AnswersTo(method) ==
    IF method = "delete" THEN StatusAnswers \cup {"200_absent"} ELSE StatusAnswers

\* The values a call returns: response.json(), {"error": message}, None.
JsonBody == Some("json")
ErrorMarker == Some("error")

\* time.sleep() arguments, in seconds.
RetrySleep == 1
GetRateLimitSleep == 1
PostRateLimitSleep == 5
DeleteRateLimitSleep == 5

\* The locals of a frame as the function is entered.  depth counts the
\* frames below it on the call stack and slept the seconds the call has
\* slept so far.
NewFrame(method, silent, return_errors, allow_fail, depth, slept) ==
    [method |-> method, silent |-> silent, return_errors |-> return_errors,
     allow_fail |-> allow_fail, first_run |-> TRUE, to_return |-> None,
     depth |-> depth, slept |-> slept]

\* One pass of the while loop of get_from_endpoint with the gateway doing a.
GetAttempt(f, a) ==
    LET nap == IF ~f.silent /\ ~f.allow_fail /\ f.first_run THEN RetrySleep ELSE 0
    IN  CASE a = "200" ->
                [f EXCEPT !.to_return = JsonBody, !.allow_fail = TRUE,
                          !.first_run = FALSE]
          [] a = "429" ->
                NewFrame("get", f.silent, TRUE, TRUE, f.depth + 1,
                         f.slept + GetRateLimitSleep)
          [] OTHER ->
                [f EXCEPT !.to_return = IF f.return_errors THEN ErrorMarker ELSE None,
                          !.slept = @ + nap, !.first_run = FALSE]

\* One pass of the while loop of post_to_endpoint.
PostAttempt(f, a) ==
    CASE a = "200" ->
            [f EXCEPT !.to_return = JsonBody, !.allow_fail = TRUE,
                      !.first_run = FALSE]
      [] a = "429" ->
            NewFrame("post", f.silent, f.return_errors, f.allow_fail,
                     f.depth + 1, f.slept + PostRateLimitSleep)
      [] OTHER ->
            [f EXCEPT !.to_return = None, !.first_run = FALSE]

\* One pass of the while loop of delete_to_endpoint.
DeleteAttempt(f, a) ==
    CASE a = "200" ->
            [f EXCEPT !.to_return = JsonBody, !.allow_fail = TRUE,
                      !.first_run = FALSE]
      [] a = "429" ->
            NewFrame("delete", f.silent, f.return_errors, TRUE,
                     f.depth + 1, f.slept + DeleteRateLimitSleep)
      [] OTHER ->
            [f EXCEPT !.to_return = None, !.first_run = FALSE]

\* The executors without their 429 branch: a 429 falls to the else branch.
AttemptWithoutRateLimitBranch(f, a) ==
    LET b == IF a = "429" THEN "500" ELSE a
    IN  CASE f.method = "get" -> GetAttempt(f, b)
          [] f.method = "post" -> PostAttempt(f, b)
          [] f.method = "delete" -> DeleteAttempt(f, b)

Attempt(f, a) ==
    CASE f.method = "get" -> GetAttempt(f, a)
      [] f.method = "post" -> PostAttempt(f, a)
      [] f.method = "delete" -> DeleteAttempt(f, a)

\* while (not allow_fail) or first_run
LoopContinues(f) == (~f.allow_fail) \/ f.first_run

\* The calls: post_to_endpoint and delete_to_endpoint take neither silent
\* nor return_errors, and never read them.
Requests ==
    {[method |-> "get", silent |-> s, return_errors |-> r, allow_fail |-> a] :
        s \in BOOLEAN, r \in BOOLEAN, a \in BOOLEAN}
    \cup {[method |-> m, silent |-> FALSE, return_errors |-> FALSE, allow_fail |-> a] :
        m \in {"post", "delete"}, a \in BOOLEAN}

FrameOf(r) == NewFrame(r.method, r.silent, r.return_errors, r.allow_fail, 0, 0)

\* The attempts of one call that the model follows.
MaxAttempts == 4

EndpointIdle ==
    /\ epc = "idle"
    /\ request = None
    /\ frame = None
    /\ answers = <<>>
    /\ api_result = None

EndpointInit ==
    /\ epc = "running"
    /\ request \in Requests
    /\ frame = FrameOf(request)
    /\ answers = <<>>
    /\ api_result = None

\* One attempt of the running call; the call returns when its loop ends.
EndpointAttempt ==
    /\ epc = "running"
    /\ Len(answers) < MaxAttempts
    /\ \E a \in AnswersTo(request.method) :
        LET f == Attempt(frame, a)
        IN  /\ frame' = f
            /\ answers' = Append(answers, a)
            /\ IF LoopContinues(f)
                  THEN epc' = "running" /\ api_result' = api_result
                  ELSE epc' = "returned" /\ api_result' = f.to_return
    /\ UNCHANGED request
    /\ UNCHANGED <<rebVars, stratVars, ccxtVars, sessionVars, dataVars>>

EndpointNext == EndpointAttempt

----------------------------------------------------------------------------
(* InteractiveBrokersRESTData: start, fetch_account_id, is_authenticated,  *)
(* ping_iserver, ping_portfolio                                            *)

\* The frame in which a call returns when the gateway does s, attempt by
\* attempt.
RECURSIVE Run(_, _)
Run(f, s) ==
    IF s = <<>> THEN f ELSE Run(Attempt(f, Head(s)), Tail(s))

Prefix(s, n) == [i \in 1..n |-> s[i]]

\* What the gateway can do during one call that returns: the call is still
\* in its loop before each attempt and leaves it after the last.
ReturningRuns(r) ==
    {s \in UNION {[1..n -> AnswersTo(r.method)] : n \in 1..MaxAttempts} :
        /\ ~LoopContinues(Run(FrameOf(r), s))
        /\ \A n \in 0..(Len(s) - 1) : LoopContinues(Run(FrameOf(r), Prefix(s, n)))}

\* What a call returns and how long it slept.
Outcomes(r) ==
    {[to_return |-> Run(FrameOf(r), s).to_return, slept |-> Run(FrameOf(r), s).slept] :
        s \in ReturningRuns(r)}

\* get_from_endpoint(url, "Auth Check", silent=True, return_errors=False)
AuthCheck ==
    [method |-> "get", silent |-> TRUE, return_errors |-> FALSE, allow_fail |-> TRUE]
AuthCheckOutcomes == Outcomes(AuthCheck)

\* func() of ping_iserver and ping_portfolio, and is_authenticated().
IsAuthenticated(o) == o.to_return # None

\* get_from_endpoint(url, "Fetching Account ID", allow_fail=False)
FetchRequest ==
    [method |-> "get", silent |-> FALSE, return_errors |-> TRUE, allow_fail |-> FALSE]
FetchOutcomes == Outcomes(FetchRequest)

\* post_to_endpoint(url, json=json, allow_fail=False)
SuppressRequest ==
    [method |-> "post", silent |-> FALSE, return_errors |-> FALSE, allow_fail |-> FALSE]
SuppressOutcomes == Outcomes(SuppressRequest)

\* What the executor calls of the data methods can return.
DataOutcomes == UNION {Outcomes(r) : r \in Requests}

\* What /portfolio/accounts can hold in a 200 answer: a list whose first
\* entry has an "id", an empty list, anything else.
AccountBodies == {"accounts", "empty", "unexpected"}
ConfiguredId == Some("configured")
GatewayId == Some("gateway")

\* The account id that lines 157-164 find in a response.
IdIn(o, body) ==
    IF o.to_return = JsonBody /\ body = "accounts" THEN GatewayId ELSE None

\* timedelta(seconds=10) and the time.sleep() arguments, in seconds.
FreshnessWindow == 10
GatewayBootSleep == 10
AuthRetrySleep == 10
FetchRetrySleep == 5
PingRetrySleep == 5

\* The clock of the model stops here.
MaxTime == 12

Categories == {"iserver", "portfolio"}
LastPing(category) ==
    IF category = "iserver" THEN last_iserver_ping ELSE last_portfolio_ping

\* not hasattr(self, "last_..._ping") or
\* datetime.now() - self.last_..._ping > timedelta(seconds=10)
ProbeDue(last_ping) ==
    last_ping = None \/ now - Val(last_ping) > FreshnessWindow

SincePrevious(probed) ==
    IF probed = None THEN "never"
    ELSE IF now - Val(probed) <= FreshnessWindow THEN "within" ELSE "longer"

SessionIdle ==
    /\ spc = "idle"
    /\ now = 0
    /\ running_on_server = FALSE
    /\ docker_installed = FALSE
    /\ account_id = None
    /\ last_iserver_ping = None
    /\ last_portfolio_ping = None
    /\ start_return = None
    /\ authenticated = FALSE
    /\ probed_at = None
    /\ ping_call = None
    /\ data_response = None

\* __init__ up to its call of start().
SessionInit ==
    /\ spc = "start"
    /\ now = 0
    /\ running_on_server \in BOOLEAN
    /\ docker_installed \in BOOLEAN
    /\ account_id \in {None, ConfiguredId}
    /\ last_iserver_ping = None
    /\ last_portfolio_ping = None
    /\ start_return = None
    /\ authenticated = FALSE
    /\ probed_at = [c \in Categories |-> None]
    /\ ping_call = None
    /\ data_response = None

\* start(), lines 60-71: docker is needed and is not installed.
StartWithoutDocker ==
    /\ spc = "start"
    /\ ~running_on_server
    /\ ~docker_installed
    /\ spc' = "ready"
    /\ start_return' = Some(71)
    /\ UNCHANGED <<now, running_on_server, docker_installed, account_id,
                   last_iserver_ping, last_portfolio_ping, authenticated,
                   probed_at, ping_call, data_response>>
    /\ UNCHANGED <<rebVars, stratVars, ccxtVars, endpointVars, dataVars>>

\* start(), lines 60-118: the gateway is there, or is started and given
\* ten seconds.
StartGateway ==
    /\ spc = "start"
    /\ running_on_server \/ docker_installed
    /\ spc' = "authenticating"
    /\ now' = IF running_on_server THEN now ELSE now + GatewayBootSleep
    /\ UNCHANGED <<running_on_server, docker_installed, account_id,
                   last_iserver_ping, last_portfolio_ping, start_return,
                   authenticated, probed_at, ping_call, data_response>>
    /\ UNCHANGED <<rebVars, stratVars, ccxtVars, endpointVars, dataVars>>

\* start(), lines 120-132: one pass of "while not self.is_authenticated()".
StartAuthCheck ==
    /\ spc = "authenticating"
    /\ \E o \in AuthCheckOutcomes :
        IF IsAuthenticated(o)
           THEN /\ now + o.slept <= MaxTime
                /\ now' = now + o.slept
                /\ spc' = "fetching"
                /\ authenticated' = TRUE
           ELSE /\ now + o.slept + AuthRetrySleep <= MaxTime
                /\ now' = now + o.slept + AuthRetrySleep
                /\ spc' = "authenticating"
                /\ authenticated' = authenticated
    /\ UNCHANGED <<running_on_server, docker_installed, account_id,
                   last_iserver_ping, last_portfolio_ping, start_return,
                   probed_at, ping_call, data_response>>
    /\ UNCHANGED <<rebVars, stratVars, ccxtVars, endpointVars, dataVars>>

\* fetch_account_id() without the test of line 146 and with a loop that
\* runs once whatever account_id is.
FetchAccountIdAnyway ==
    /\ spc = "fetching"
    /\ \E o \in FetchOutcomes, body \in AccountBodies :
        /\ now + o.slept <= MaxTime
        /\ now' = now + o.slept
        /\ last_portfolio_ping' = Some(now')
        /\ account_id' = IF IdIn(o, body) # None THEN IdIn(o, body) ELSE account_id
        /\ spc' = IF account_id' # None THEN "suppressing" ELSE "fetching"
    /\ UNCHANGED <<running_on_server, docker_installed, last_iserver_ping,
                   start_return, authenticated, probed_at, ping_call, data_response>>
    /\ UNCHANGED <<rebVars, stratVars, ccxtVars, endpointVars, dataVars>>

\* fetch_account_id() with an account id that is already set: it returns
\* at line 147.
FetchAccountIdKnown ==
    /\ spc = "fetching"
    /\ account_id # None
    /\ spc' = "suppressing"
    /\ UNCHANGED <<now, running_on_server, docker_installed, account_id,
                   last_iserver_ping, last_portfolio_ping, start_return,
                   authenticated, probed_at, ping_call, data_response>>
    /\ UNCHANGED <<rebVars, stratVars, ccxtVars, endpointVars, dataVars>>

\* fetch_account_id(), lines 151-187: one pass of
\* "while self.account_id is None".
FetchAccountId ==
    /\ spc = "fetching"
    /\ account_id = None
    /\ \E o \in FetchOutcomes, body \in AccountBodies :
        IF IdIn(o, body) # None
           THEN /\ now + o.slept <= MaxTime
                /\ now' = now + o.slept
                /\ last_portfolio_ping' = Some(now')
                /\ account_id' = IdIn(o, body)
                /\ spc' = "suppressing"
           ELSE /\ now + o.slept + FetchRetrySleep <= MaxTime
                /\ now' = now + o.slept + FetchRetrySleep
                /\ last_portfolio_ping' = Some(now + o.slept)
                /\ account_id' = account_id
                /\ spc' = "fetching"
    /\ UNCHANGED <<running_on_server, docker_installed, last_iserver_ping,
                   start_return, authenticated, probed_at, ping_call, data_response>>
    /\ UNCHANGED <<rebVars, stratVars, ccxtVars, endpointVars, dataVars>>

\* start(), lines 137-143: the post that returns once the gateway has
\* answered 200, and the end of start().
StartSuppress ==
    /\ spc = "suppressing"
    /\ \E o \in SuppressOutcomes :
        /\ now + o.slept <= MaxTime
        /\ now' = now + o.slept
    /\ spc' = "ready"
    /\ start_return' = Some(143)
    /\ UNCHANGED <<running_on_server, docker_installed, account_id,
                   last_iserver_ping, last_portfolio_ping, authenticated,
                   probed_at, ping_call, data_response>>
    /\ UNCHANGED <<rebVars, stratVars, ccxtVars, endpointVars, dataVars>>

\* ping_iserver() / ping_portfolio() is called: lines 211-214 and 227-228.
\* ping_call keeps how long before the call the previous probe of the
\* category was sent (never, within the window, longer ago), the probes of
\* this call and whether it has returned.
PingBegins(category) ==
    /\ spc = "ready"
    /\ ping_call' = [category |-> category,
                     previous |-> SincePrevious(probed_at[category]),
                     probes |-> 0,
                     returned |-> ~ProbeDue(LastPing(category))]
    /\ spc' = IF ProbeDue(LastPing(category)) THEN "pinging" ELSE "ready"
    /\ UNCHANGED <<now, running_on_server, docker_installed, account_id,
                   last_iserver_ping, last_portfolio_ping, start_return,
                   authenticated, probed_at, data_response>>
    /\ UNCHANGED <<rebVars, stratVars, ccxtVars, endpointVars, dataVars>>

PingIserverBegins == PingBegins("iserver")
PingPortfolioBegins == PingBegins("portfolio")

\* One pass of "while not func()", lines 215-226 and 245-256: the probe,
\* and after a failed one the timestamp and the sleep.
PingProbe(category) ==
    /\ spc = "pinging"
    /\ ping_call.category = category
    /\ \E o \in AuthCheckOutcomes :
        LET stamp == Some(now + o.slept)
        IN  /\ IF IsAuthenticated(o)
                  THEN /\ now + o.slept <= MaxTime
                       /\ now' = now + o.slept
                       /\ spc' = "ready"
                       /\ UNCHANGED <<last_iserver_ping, last_portfolio_ping>>
                  ELSE /\ now + o.slept + PingRetrySleep <= MaxTime
                       /\ now' = now + o.slept + PingRetrySleep
                       /\ spc' = "pinging"
                       /\ last_iserver_ping' =
                            IF category = "iserver" THEN stamp ELSE last_iserver_ping
                       /\ last_portfolio_ping' =
                            IF category = "portfolio" THEN stamp ELSE last_portfolio_ping
            /\ ping_call' = [ping_call EXCEPT !.probes = @ + 1,
                                              !.returned = IsAuthenticated(o)]
    /\ probed_at' = [probed_at EXCEPT ![category] = Some(now)]
    /\ UNCHANGED <<running_on_server, docker_installed, account_id,
                   start_return, authenticated, data_response>>
    /\ UNCHANGED <<rebVars, stratVars, ccxtVars, endpointVars, dataVars>>

PingIserverProbe == PingProbe("iserver")
PingPortfolioProbe == PingProbe("portfolio")

\* The executor call of a data method (get_contract_details,
\* get_account_balances, execute_order, delete_order, ...) after its ping.
DataCall ==
    /\ spc = "ready"
    /\ \E o \in DataOutcomes :
        /\ now + o.slept <= MaxTime
        /\ now' = now + o.slept
        /\ data_response' = o.to_return
    /\ UNCHANGED <<spc, running_on_server, docker_installed, account_id,
                   last_iserver_ping, last_portfolio_ping, start_return,
                   authenticated, probed_at, ping_call>>
    /\ UNCHANGED <<rebVars, stratVars, ccxtVars, endpointVars, dataVars>>

\* Time passes between two steps.
Tick ==
    /\ spc # "idle"
    /\ now < MaxTime
    /\ now' = now + 1
    /\ UNCHANGED <<spc, running_on_server, docker_installed, account_id,
                   last_iserver_ping, last_portfolio_ping, start_return,
                   authenticated, probed_at, ping_call, data_response>>
    /\ UNCHANGED <<rebVars, stratVars, ccxtVars, endpointVars, dataVars>>

SessionNext ==
    \/ StartWithoutDocker
    \/ StartGateway
    \/ StartAuthCheck
    \/ FetchAccountIdKnown
    \/ FetchAccountId
    \/ StartSuppress
    \/ PingIserverBegins
    \/ PingPortfolioBegins
    \/ PingIserverProbe
    \/ PingPortfolioProbe
    \/ DataCall
    \/ Tick

----------------------------------------------------------------------------
(* InteractiveBrokersRESTData: get_market_snapshot, get_quote              *)

\* The field table of get_market_snapshot.
all_fields ==
    ("84" :> "bid") @@ ("85" :> "ask_size") @@ ("86" :> "ask") @@
    ("88" :> "bid_size") @@ ("31" :> "last_price") @@
    ("7283" :> "implied_volatility") @@ ("7311" :> "vega") @@
    ("7310" :> "theta") @@ ("7308" :> "delta") @@ ("7309" :> "gamma")

\* fields_to_get, lines 1004-1007.
FieldsToGet(fs) == {k \in DOMAIN all_fields : all_fields[k] \in fs}

\* The field lists of the callers: get_quote, get_last_price, query_greeks.
QuoteFields == {"last_price", "bid", "ask", "bid_size", "ask_size"}
LastPriceFields == {"last_price"}
GreekFields == {"vega", "theta", "gamma", "delta"}
FieldLists == {QuoteFields, LastPriceFields, GreekFields}

max_retries == 500
QuickFetches == 3

\* The strings the gateway sends as values, and what float() makes of
\* them; float() raises ValueError on the others.
FloatOf == ("-1" :> -1) @@ ("0" :> 0) @@ ("1" :> 1) @@ ("4" :> 4) @@
           ("5" :> 5) @@ ("6" :> 6)
\* The strings that start with "C", and what follows the "C".
AfterPrefix == ("C5" :> "5")

\* A value of the returned mapping: a float, a string, or None.
Num(n) == [kind |-> "float", num |-> n, text |-> ""]
Str(t) == [kind |-> "str", num |-> 0, text |-> t]
NoValue == [kind |-> "none", num |-> 0, text |-> ""]

\* Lines 1047-1050.
Convert(raw) == IF raw \in DOMAIN FloatOf THEN Num(FloatOf[raw]) ELSE Str(raw)

\* response[0] of a snapshot: the quote fields and keys nobody asked for.
Row(last_price, bid, ask) ==
    ("31" :> last_price) @@ ("84" :> bid) @@ ("86" :> ask) @@
    ("85" :> "1") @@ ("88" :> "1") @@ ("conid" :> "1") @@ ("7311" :> "0")
Without(row, keys) == [k \in (DOMAIN row) \ keys |-> row[k]]

SnapshotRows ==
    {Row(l, b, a) : l \in {"5", "C5"}, b \in {"-1", "0", "4"}, a \in {"-1", "6"}}
    \cup {Without(Row("5", "4", "6"), ks) :
            ks \in {{"84"}, {"31"}, {"86", "85"}, {"7311"},
                    {"31", "84", "86", "85", "88", "7311"}}}

\* What get_from_endpoint(url, "Getting Market Snapshot") returns: None, an
\* error object, an empty list, or a list whose first entry is a row.
NoSnapshot == [kind |-> "none", rows |-> <<>>]
SnapshotResponses ==
    {NoSnapshot, [kind |-> "error", rows |-> <<>>], [kind |-> "list", rows |-> <<>>]}
    \cup {[kind |-> "list", rows |-> <<row>>] : row \in SnapshotRows}

\* response and isinstance(response, list) and len(response) > 0
HasRow(r) == r.kind = "list" /\ Len(r.rows) > 0

\* Lines 1024-1033.
MissingFields(r, fields_to_get) ==
    HasRow(r) /\ \E field \in fields_to_get : field \notin DOMAIN r.rows[1]

\* Lines 1036-1053: the mapping from names to converted values.
Output(r, fields_to_get) ==
    IF HasRow(r)
       THEN [name \in {all_fields[k] : k \in (DOMAIN r.rows[1]) \cap fields_to_get} |->
                Convert(r.rows[1][CHOOSE k \in fields_to_get : all_fields[k] = name])]
       ELSE <<>>

\* get_quote on the result of get_market_snapshot, lines 1079-1101.
GetQuote(result) ==
    IF result = None \/ DOMAIN Val(result) = {}
       THEN [kind |-> "none", trading |-> FALSE, values |-> <<>>]
    ELSE IF {"last_price", "bid", "ask"} \ DOMAIN Val(result) # {}
       THEN [kind |-> "KeyError", trading |-> FALSE, values |-> <<>>]
    ELSE LET m == Val(result)
             last == m["last_price"]
             stale == last.kind = "str" /\ last.text \in DOMAIN AfterPrefix
             price == IF stale THEN Num(FloatOf[AfterPrefix[last.text]]) ELSE last
         IN  [kind |-> "quote",
              trading |-> ~stale,
              values |-> [n \in ((DOMAIN m) \ {"last_price"}) \cup {"price"} |->
                            IF n = "price" THEN price
                            ELSE IF n \in {"bid", "ask"} /\ m[n] = Num(-1) THEN NoValue
                            ELSE m[n]]]

SnapshotIdle ==
    /\ qpc = "idle"
    /\ fields = {}
    /\ retries = 0
    /\ missing_fields = FALSE
    /\ snapshot = NoSnapshot
    /\ snapshot_sleeps = 0
    /\ output = None
    /\ quote = None

\* get_market_snapshot up to its loop, lines 984-1018.
SnapshotInit ==
    /\ qpc = "fetching"
    /\ fields \in FieldLists
    /\ retries = 0
    /\ missing_fields = TRUE
    /\ snapshot = NoSnapshot
    /\ snapshot_sleeps = 0
    /\ output = None
    /\ quote = None

\* Lines 1000-1002: no contract identifier for the asset.
SnapshotNoContract ==
    /\ qpc = "fetching"
    /\ retries = 0
    /\ qpc' = "returned"
    /\ output' = None
    /\ UNCHANGED <<fields, retries, missing_fields, snapshot, snapshot_sleeps, quote>>
    /\ UNCHANGED <<rebVars, stratVars, ccxtVars, endpointVars, sessionVars, ordVars>>

\* The loop of lines 1019-1033 without the bound on retries.
SnapshotFetchUnbounded ==
    /\ qpc = "fetching"
    /\ missing_fields
    /\ retries <= max_retries
    /\ \E r \in SnapshotResponses :
        /\ snapshot' = r
        /\ missing_fields' = MissingFields(r, FieldsToGet(fields))
    /\ snapshot_sleeps' = IF retries >= QuickFetches THEN snapshot_sleeps + 1
                          ELSE snapshot_sleeps
    /\ retries' = retries + 1
    /\ UNCHANGED <<qpc, fields, output, quote>>
    /\ UNCHANGED <<rebVars, stratVars, ccxtVars, endpointVars, sessionVars, ordVars>>

\* One pass of the loop of lines 1019-1033.
SnapshotFetch ==
    /\ qpc = "fetching"
    /\ missing_fields
    /\ retries < max_retries
    /\ \E r \in SnapshotResponses :
        /\ snapshot' = r
        /\ missing_fields' = MissingFields(r, FieldsToGet(fields))
    /\ snapshot_sleeps' = IF retries >= QuickFetches THEN snapshot_sleeps + 1
                          ELSE snapshot_sleeps
    /\ retries' = retries + 1
    /\ UNCHANGED <<qpc, fields, output, quote>>
    /\ UNCHANGED <<rebVars, stratVars, ccxtVars, endpointVars, sessionVars, ordVars>>

\* Lines 1035-1055: the loop has ended.
SnapshotReturns ==
    /\ qpc = "fetching"
    /\ retries > 0
    /\ ~(missing_fields /\ retries < max_retries)
    /\ qpc' = "returned"
    /\ output' = Some(Output(snapshot, FieldsToGet(fields)))
    /\ UNCHANGED <<fields, retries, missing_fields, snapshot, snapshot_sleeps, quote>>
    /\ UNCHANGED <<rebVars, stratVars, ccxtVars, endpointVars, sessionVars, ordVars>>

\* get_quote, lines 1076-1101, on the snapshot it asked for.
GetQuoteReturns ==
    /\ qpc = "returned"
    /\ fields = QuoteFields
    /\ quote' = Some(GetQuote(output))
    /\ qpc' = IF GetQuote(output).kind = "KeyError" THEN "quote_raised" ELSE "quoted"
    /\ UNCHANGED <<fields, retries, missing_fields, snapshot, snapshot_sleeps, output>>
    /\ UNCHANGED <<rebVars, stratVars, ccxtVars, endpointVars, sessionVars, ordVars>>

SnapshotNext ==
    \/ SnapshotNoContract
    \/ SnapshotFetch
    \/ SnapshotReturns
    \/ GetQuoteReturns

----------------------------------------------------------------------------
(* InteractiveBrokersRESTData: get_open_orders                             *)

\* An entry of response["orders"]: a dict with a status, a dict without
\* one (order.get("status") is None), or something that is no dict.
Statuses == {"Submitted", "PreSubmitted", "Cancelled", "Filled"}
OrderEntry(status) == [is_dict |-> TRUE, status |-> status]
OrderEntries ==
    {OrderEntry(st) : st \in Statuses \cup {"None"}}
    \cup {[is_dict |-> FALSE, status |-> "None"]}

\* The entries of one response that the model follows.
MaxOrders == 2

OrderLists == UNION {[1..n -> OrderEntries] : n \in 0..MaxOrders}

\* What get_from_endpoint(url, "Getting open orders", allow_fail=False)
\* returns: None, an object with "error", an empty list, a list with
\* entries, an object without "orders", an object with "orders".
NoOrdersResponse == [kind |-> "none", orders |-> <<>>]
OrdersResponses ==
    {[kind |-> k, orders |-> <<>>] :
        k \in {"none", "error", "empty_list", "list", "object"}}
    \cup {[kind |-> "orders", orders |-> os] : os \in OrderLists}

\* func() of get_open_orders, lines 507-533: None after an error, the
\* TypeError that the message of line 527 raises, or the response.
OrdersFunc(r) ==
    CASE r.kind = "error" -> "None"
      [] r.kind \in {"none", "empty_list"} -> "TypeError"
      [] OTHER -> "response"

\* Lines 559-570.
FilterOrders(r) ==
    IF r.kind = "orders"
       THEN SelectSeq(r.orders,
                      LAMBDA o : o.is_dict /\ o.status \notin {"Cancelled", "Filled"})
       ELSE <<>>

\* timedelta(seconds=5) of the rate limit, the sleep after a failed fetch.
OrdersInterval == 5
OrdersRetrySleep == 5

\* The fetches of one call that the model follows.
MaxOrderFetches == 3

OrdersIdle ==
    /\ opc = "idle"
    /\ last_orders_ping = None
    /\ orders_slept = 0
    /\ orders_response = NoOrdersResponse
    /\ orders_fetches = 0
    /\ open_orders = <<>>

\* get_open_orders is called: last_orders_ping holds the seconds since the
\* previous fetch, None while the attribute is absent.
OrdersInit ==
    /\ opc = "called"
    /\ last_orders_ping \in {None} \cup {Some(t) : t \in 0..(OrdersInterval + 1)}
    /\ orders_slept = 0
    /\ orders_response = NoOrdersResponse
    /\ orders_fetches = 0
    /\ open_orders = <<>>

\* Lines 535-545: the call waits until five seconds have passed since the
\* previous fetch.
OrdersRateLimit ==
    /\ opc = "called"
    /\ opc' = "fetching"
    /\ orders_slept' =
        IF last_orders_ping # None /\ Val(last_orders_ping) < OrdersInterval
           THEN OrdersInterval - Val(last_orders_ping)
           ELSE 0
    /\ UNCHANGED <<last_orders_ping, orders_response, orders_fetches, open_orders>>
    /\ UNCHANGED <<rebVars, stratVars, ccxtVars, endpointVars, sessionVars, snapVars>>

\* One pass of "while response is None", lines 546-553, and after a
\* response lines 555-572.
OrdersFetch ==
    /\ opc = "fetching"
    /\ orders_fetches < MaxOrderFetches
    /\ \E r \in OrdersResponses :
        /\ orders_response' = r
        /\ orders_fetches' = orders_fetches + 1
        /\ CASE OrdersFunc(r) = "TypeError" ->
                    /\ opc' = "raised"
                    /\ UNCHANGED <<last_orders_ping, orders_slept, open_orders>>
             [] OrdersFunc(r) = "None" ->
                    /\ opc' = "fetching"
                    /\ last_orders_ping' = Some(OrdersRetrySleep)
                    /\ orders_slept' = orders_slept + OrdersRetrySleep
                    /\ UNCHANGED open_orders
             [] OTHER ->
                    /\ opc' = "returned"
                    /\ last_orders_ping' = Some(0)
                    /\ open_orders' = FilterOrders(r)
                    /\ UNCHANGED orders_slept
    /\ UNCHANGED <<rebVars, stratVars, ccxtVars, endpointVars, sessionVars, snapVars>>

OrdersNext ==
    \/ OrdersRateLimit
    \/ OrdersFetch

DataIdle == SnapshotIdle /\ OrdersIdle

IbIdle == EndpointIdle /\ SessionIdle /\ DataIdle


----------------------------------------------------------------------------
(* Specifications *)

CcxtIdle ==
    /\ cpc = "idle"
    /\ market = None
    /\ order = None
    /\ before = None
    /\ verdict = None
    /\ before_verdict = None
    /\ outcome = None
    /\ sent = None
    /\ broker_answer = None
    /\ returned = None
    /\ passes = 0
    /\ cancel_response = None

\* One call of LimitOrderRebalanceLogic.rebalance() on a table of calculate().
InitRebalance == RebInit /\ StratIdle /\ CcxtIdle /\ IbIdle

SpecRebalance == InitRebalance /\ [][RebNext]_vars

InitSubmit == CcxtInit /\ RebIdle /\ StratIdle /\ IbIdle

\* Calls of Ccxt._submit_order against one market.
SpecSubmit == InitSubmit /\ [][CcxtNext]_vars

InitIteration == IterationInit /\ CcxtIdle /\ IbIdle

\* One call of DriftRebalancer.on_trading_iteration.
SpecIteration == InitIteration /\ [][IterationNext]_vars

InitDrift == DriftInit /\ CcxtIdle /\ IbIdle

\* One DriftCalculationLogic object: add_position calls, then calculate().
SpecDrift == InitDrift /\ [][DriftNext]_vars

InitCancel == CancelInit /\ RebIdle /\ StratIdle /\ IbIdle

\* Calls of Ccxt.cancel_order on one order.
SpecCancel == InitCancel /\ [][CancelNext]_vars

InitEndpoint ==
    EndpointInit /\ RebIdle /\ StratIdle /\ CcxtIdle /\ SessionIdle /\ DataIdle

InitSession ==
    SessionInit /\ RebIdle /\ StratIdle /\ CcxtIdle /\ EndpointIdle /\ DataIdle

\* One InteractiveBrokersRESTData object: the start() of its constructor,
\* then calls of ping_iserver, ping_portfolio and of data methods.
SpecSession == InitSession /\ [][SessionNext]_vars

\* One call of get_from_endpoint, post_to_endpoint or delete_to_endpoint.
SpecEndpoint == InitEndpoint /\ [][EndpointNext]_vars

InitSnapshot ==
    /\ SnapshotInit
    /\ RebIdle /\ StratIdle /\ CcxtIdle /\ EndpointIdle /\ SessionIdle /\ OrdersIdle

InitOrders ==
    /\ OrdersInit
    /\ RebIdle /\ StratIdle /\ CcxtIdle /\ EndpointIdle /\ SessionIdle /\ SnapshotIdle

\* One call of get_open_orders.
SpecOrders == InitOrders /\ [][OrdersNext]_vars

\* One call of get_market_snapshot, and get_quote on its result.
SpecSnapshot == InitSnapshot /\ [][SnapshotNext]_vars

Init ==
    \/ InitRebalance
    \/ InitSubmit
    \/ InitCancel
    \/ InitDrift
    \/ InitIteration
    \/ InitEndpoint
    \/ InitSession
    \/ InitSnapshot
    \/ InitOrders

Next ==
    \/ IterationNext
    \/ CcxtNext
    \/ CancelNext
    \/ DriftNext
    \/ EndpointNext
    \/ SessionNext
    \/ SnapshotNext
    \/ OrdersNext

Spec == Init /\ [][Next]_vars

----------------------------------------------------------------------------
(* Claims about LimitOrderRebalanceLogic.rebalance(), under SpecRebalance *)

BuyIndexes == {i \in 1..Len(orders) : orders[i].side = "buy"}
SellIndexes == {i \in 1..Len(orders) : orders[i].side = "sell"}

\* C1: within one rebalance() call every sell is submitted before every buy
\* (no buy exists while the sell pass runs), and within each pass the orders
\* follow the row order of the drift table, each for the symbol of its row.
C1_SellsBeforeBuysInRowOrder ==
    /\ pc \in {"sell", "refresh"} => BuyIndexes = {}
    /\ \A i \in 1..Len(orders) :
          /\ orders[i].row \in 1..Len(df)
          /\ orders[i].symbol = df[orders[i].row].symbol
    /\ \A i \in 1..Len(orders) : \A j \in 1..Len(orders) :
          i < j =>
            /\ orders[i].side = "buy" => orders[j].side = "buy"
            /\ orders[i].side = orders[j].side => orders[i].row < orders[j].row

\* C1 witness: a finished call that placed a sell for a later row than the
\* row of one of its two buys.
C1_Witness ==
    /\ pc = "done"
    /\ Cardinality(BuyIndexes) >= 2
    /\ \E i \in SellIndexes : \E j \in BuyIndexes : orders[j].row < orders[i].row

\* C2 as stated: in every state of the buy pass cash_position is not negative.
C2_CashNeverNegative ==
    pc \in {"buy", "done"} => cash_position >= 0

\* C2 amended: when the balance read at the cash refresh is not negative,
\* cash_position is not negative in any state of the buy pass; whatever was
\* read, the buy pass never takes it below min(0, the balance read).
C2_CashNotNegativeAfterNonNegativeRead ==
    pc \in {"buy", "done"} =>
        /\ broker_cash >= 0 => cash_position >= 0
        /\ cash_position >= Min(0, broker_cash)

\* C2 witness: a finished buy pass that started with cash, placed two buys and
\* used the cash up, the second buy being capped by what was left.
C2_Witness ==
    /\ pc = "done"
    /\ broker_cash > 0
    /\ cash_position = 0
    /\ \E i \in BuyIndexes : \E j \in BuyIndexes :
          /\ i < j
          /\ orders[j].cash_before < broker_cash
          /\ orders[j].cash_before <
                df[orders[j].row].target_value - df[orders[j].row].current_value

\* quantity * limit_price of an order, and an amount of money, on one scale.
Notional(o) == o.quantity * o.limit_price * WeightDen
OnNotionalScale(money) == money * LimitDen

RECURSIVE SumBuyNotional(_)
SumBuyNotional(os) ==
    IF os = <<>> THEN 0
    ELSE (IF Head(os).side = "buy" THEN Notional(Head(os)) ELSE 0)
            + SumBuyNotional(Tail(os))

\* C3 as stated: every buy has quantity * limit_price <= the cash estimate
\* just before it, and the buys of one call sum to no more than the balance
\* read at the cash refresh.
C3_BuysWithinCash ==
    /\ \A i \in BuyIndexes : Notional(orders[i]) <= OnNotionalScale(orders[i].cash_before)
    /\ pc \in {"buy", "done"} => SumBuyNotional(orders) <= OnNotionalScale(broker_cash)

\* C3 amended: when the balance read at the cash refresh is not negative,
\* every buy has quantity * limit_price <= the cash estimate just before it,
\* and the buys of the call sum to no more than the balance read.
C3_BuysWithinNonNegativeCash ==
    broker_cash >= 0 =>
        /\ \A i \in BuyIndexes :
              Notional(orders[i]) <= OnNotionalScale(orders[i].cash_before)
        /\ pc \in {"buy", "done"} => SumBuyNotional(orders) <= OnNotionalScale(broker_cash)

\* C3 witness: a finished call with a buy whose quantity the cash left, not
\* the order value, decided, and that spent money.
C3_Witness ==
    /\ pc = "done"
    /\ broker_cash > 0
    /\ \E i \in BuyIndexes :
          /\ orders[i].cash_before <
                df[orders[i].row].target_value - df[orders[i].row].current_value
          /\ Notional(orders[i]) > 0
          /\ orders[i].quantity =
                WholeUnits(orders[i].cash_before, orders[i].limit_price)

----------------------------------------------------------------------------
(* Claims about Ccxt._submit_order, under SpecSubmit *)

Returned == cpc = "returned"

\* The order was handed to api.create_order in the last call.
Transmitted == Returned /\ sent # None

BelowBound(x, bounds) == bounds.min # None /\ x < Val(bounds.min)
AboveBound(x, bounds) == bounds.max # None /\ x > Val(bounds.max)

\* C4: an order whose quantized quantity is below a defined amount minimum or
\* above a defined amount maximum is not handed to api.create_order and gets
\* no identifier; a bound that is None rejects nothing.
C4_AmountOutsideLimitsNotSubmitted ==
    Returned /\ order.quantity # None =>
        LET outside == \/ BelowBound(Val(order.quantity), market.limits.amount)
                       \/ AboveBound(Val(order.quantity), market.limits.amount)
        IN  /\ outside => sent = None /\ broker_answer = None /\ order.identifier = None
            /\ verdict \in {"BelowMinQuantity", "AboveMaxQuantity"} <=> outside

\* C4 witness: a call that rejected a quantity above the maximum in a market
\* without a minimum.
C4_Witness ==
    /\ Returned
    /\ verdict = "AboveMaxQuantity"
    /\ market.limits.amount.min = None
    /\ order.quantity # None
    /\ sent = None

\* C5: in every order handed to api.create_order each price field that is not
\* None lies within the defined price bounds, and its price * quantity within
\* the defined cost bounds.
C5_PriceAndCostWithinLimits ==
    Transmitted =>
        \A k \in 1..Len(PriceTypes) :
            order[PriceTypes[k]] # None =>
                LET price == Val(order[PriceTypes[k]])
                IN  /\ ~BelowBound(price, market.limits.price)
                    /\ ~AboveBound(price, market.limits.price)
                    /\ market.limits.cost # Bounds(None, None) =>
                          /\ order.quantity # None
                          /\ ~BelowBound(price * Val(order.quantity), market.limits.cost)
                          /\ ~AboveBound(price * Val(order.quantity), market.limits.cost)

\* C5 witness: an order with a limit price and a stop price handed to
\* api.create_order in a market that defines all four price and cost bounds.
C5_Witness ==
    /\ Transmitted
    /\ order.limit_price # None
    /\ order.stop_price # None
    /\ market.limits.price.min # None
    /\ market.limits.price.max # None
    /\ market.limits.cost.min # None
    /\ market.limits.cost.max # None

MultipleOf(x, p) == x % PrecisionValue(p) = 0

\* C6 as stated: every quantity, limit price and stop price handed to
\* api.create_order is a multiple of the declared amount or price precision.
C6_TransmittedOnPrecisionGrid ==
    Transmitted =>
        /\ Val(sent).quantity # None =>
              MultipleOf(Val(Val(sent).quantity), market.precision.amount)
        /\ Val(sent).limit_price # None =>
              MultipleOf(Val(Val(sent).limit_price), market.precision.price)
        /\ Val(sent).stopPrice # None =>
              MultipleOf(Val(Val(sent).stopPrice), market.precision.price)

NumberFields(o) ==
    <<o.quantity, o.limit_price, o.stop_price, o.stop_loss_price, o.stop_loss_limit_price>>

\* C7: a second pass of an order through _submit_order changes none of its
\* quantity and price fields and ends validation as the first pass did.
C7_SecondPassChangesNothing ==
    Returned /\ passes >= 2 =>
        /\ NumberFields(order) = NumberFields(before)
        /\ before_verdict = Some(verdict)

\* C7 witness: a second pass of an order that passed validation, in a market
\* whose precisions round the quantity and the price of the first pass.
C7_Witness ==
    /\ Returned
    /\ passes = 2
    /\ verdict = "passed"
    /\ order.quantity # None
    /\ order.limit_price # None
    /\ market.precision.amount.exp = 0
    /\ market.precision.price.exp = 0

\* C8 as stated: a call that finds a limit violated returns normally (None),
\* hands nothing to api.create_order and leaves identifier and status alone.
C8_RejectionReturnsNormally ==
    Returned /\ verdict \in LimitVerdicts =>
        /\ outcome = "rejected"
        /\ returned = None
        /\ sent = None
        /\ order.identifier = before.identifier
        /\ order.status = before.status

\* C9: when api.create_order raises, the call returns the order, the order
\* carries the exception, and its identifier, status and raw payload are
\* what they were before the call.
C9_BrokerExceptionCaptured ==
    Returned /\ broker_answer # None /\ Val(broker_answer).kind = "raise" =>
        /\ returned = Some("order")
        /\ order.error = Some(Val(broker_answer).error)
        /\ order.identifier = before.identifier
        /\ order.status = before.status
        /\ order.raw = before.raw
        /\ passes = 1 => order.identifier = None

\* C9 witness: a first call in which api.create_order raised.
C9_Witness ==
    /\ Returned
    /\ passes = 1
    /\ broker_answer = Some(Raises("NetworkError"))
    /\ order.error # None

GotResponse == broker_answer # None /\ Val(broker_answer).kind = "response"

\* C10: a call sets identifier, status and raw payload from the response when
\* api.create_order returned one, and leaves all three alone otherwise; an
\* order with an identifier got it from a response.
C10_IdentifierOnlyFromResponse ==
    Returned =>
        /\ GotResponse =>
              /\ order.identifier = Some(Val(broker_answer).id)
              /\ order.status = Val(broker_answer).status
              /\ order.raw = broker_answer
        /\ ~GotResponse =>
              /\ order.identifier = before.identifier
              /\ order.status = before.status
              /\ order.raw = before.raw
        /\ order.identifier # None => order.raw # None /\ Val(order.raw).kind = "response"

\* C10 witness: a first call whose order was accepted by the broker.
C10_Witness ==
    /\ Returned
    /\ passes = 1
    /\ GotResponse
    /\ order.identifier = Some(1)
    /\ before.identifier = None

----------------------------------------------------------------------------
(* Claims about Ccxt.cancel_order, under SpecCancel *)

CancelReturned == cpc = "cancel_returned"

\* The acknowledgement of the last cancel_order call is the identifier the
\* order had.
AckMatches ==
    LET response == Val(cancel_response)
    IN  \/ response.kind = "id" /\ before.identifier = Some(response.id)
        \/ response.kind = "none" /\ before.identifier = None

\* C11: cancel_order marks the order canceled when the acknowledgement of
\* the broker equals the identifier of the order, and changes nothing of the
\* order for any other acknowledgement.
C11_CanceledOnlyOnMatchingAck ==
    /\ CancelReturned /\ AckMatches =>
          order = [before EXCEPT !.status = "canceled"]
    /\ CancelReturned /\ ~AckMatches => order = before
    /\ cpc = "cancel_raised" => order = before

\* C11 witness: an open order canceled by a matching acknowledgement.
C11_Witness ==
    /\ CancelReturned
    /\ AckMatches
    /\ before.status = "open"
    /\ before.identifier = Some(1)
    /\ order.status = "canceled"

\* C11 witness of the other case: an open order left open by an order
\* structure that holds its identifier.
C11_MismatchSeen ==
    /\ CancelReturned
    /\ Val(cancel_response) = [kind |-> "dict", id |-> 1]
    /\ before.identifier = Some(1)
    /\ order.status = "open"

----------------------------------------------------------------------------
(* Claims about DriftCalculationLogic.calculate(), under SpecDrift *)

Calculated == pc = "calculated"

Rows == 1..Len(df)

\* C12: after calculate() every row flagged as the quote asset has
\* absolute_drift 0, whatever its quantity, value and target weight.
C12_QuoteAssetDriftIsZero ==
    Calculated =>
        \A i \in Rows : df[i].is_quote_asset => df[i].absolute_drift = DecZero

\* C12 witness: a quote-asset row with a target weight, a quantity and a
\* weight in the portfolio that differs from its target.
C12_Witness ==
    /\ Calculated
    /\ \E i \in Rows :
          /\ df[i].is_quote_asset
          /\ df[i].target_weight > 0
          /\ df[i].current_quantity > 0
          /\ df[i].current_weight # DecTenths(df[i].target_weight)

\* C13: after calculate() every row that is not the quote asset, has a
\* quantity above 0 and a target weight of 0 has absolute_drift -1.
C13_HeldWithoutTargetIsMinusOne ==
    Calculated =>
        \A i \in Rows :
            (~df[i].is_quote_asset /\ df[i].current_quantity > 0
                /\ df[i].target_weight = 0)
            => df[i].absolute_drift = Dec(-1, 0)

\* C13 witness: such a row whose weight in the portfolio is below 1, so
\* that target_weight - current_weight is not -1.
C13_Witness ==
    /\ Calculated
    /\ \E i \in Rows :
          /\ ~df[i].is_quote_asset
          /\ df[i].current_quantity > 0
          /\ df[i].target_weight = 0
          /\ DecLess(DecZero, df[i].current_weight)
          /\ DecLess(df[i].current_weight, Dec(1, 0))

\* C14: after calculate() every row that is not the quote asset, has a
\* quantity of 0 and a target weight above 0 has absolute_drift +1.
C14_TargetWithoutHoldingIsPlusOne ==
    Calculated =>
        \A i \in Rows :
            (~df[i].is_quote_asset /\ df[i].current_quantity = 0
                /\ df[i].target_weight > 0)
            => df[i].absolute_drift = Dec(1, 0)

\* C14 witness: such a row with a target weight below 1 and a value in the
\* portfolio, so that target_weight - current_weight is not +1.
C14_Witness ==
    /\ Calculated
    /\ \E i \in Rows :
          /\ ~df[i].is_quote_asset
          /\ df[i].current_quantity = 0
          /\ df[i].target_weight \in 1..(WeightDen - 1)
          /\ df[i].current_value > 0

\* C15 as stated: calculate() on a table whose values sum to 0 returns, and
\* every row then has current_weight 0.
C15_ZeroTotalCompletes ==
    /\ pc # "calculate_raised"
    /\ Calculated /\ SumValues(df) = 0 =>
          \A i \in Rows : df[i].current_weight = DecZero

\* The smallest exponent among the current_weight values.
RECURSIVE MinExponent(_)
MinExponent(rows) ==
    IF rows = <<>> THEN 0
    ELSE Min(Head(rows).current_weight.e, MinExponent(Tail(rows)))

\* The exact sum of the current_weight values, and of their magnitudes, as
\* counts of 10^e.
RECURSIVE SumWeights(_, _)
SumWeights(rows, e) ==
    IF rows = <<>> THEN 0
    ELSE Aligned(Head(rows).current_weight, e) + SumWeights(Tail(rows), e)

RECURSIVE SumWeightMagnitudes(_, _)
SumWeightMagnitudes(rows, e) ==
    IF rows = <<>> THEN 0
    ELSE Abs(Aligned(Head(rows).current_weight, e))
            + SumWeightMagnitudes(Tail(rows), e)

\* The sum as df["current_weight"].sum() adds it up: one Decimal addition
\* after the other.
RECURSIVE DecSumWeights(_, _)
DecSumWeights(rows, acc) ==
    IF rows = <<>> THEN acc
    ELSE DecSumWeights(Tail(rows), DecAdd(acc, Head(rows).current_weight))

\* target_value = target_weight * total_value in every row.
TargetValuesExact ==
    \A i \in Rows :
        df[i].target_value * WeightDen = df[i].target_weight * SumValues(df)

\* C16 as stated: for a total above 0 the current_weight values sum to 1
\* (as an exact sum or as the Decimal sum), and every target_value is
\* target_weight * total_value.
C16_WeightsSumToOne ==
    Calculated /\ SumValues(df) > 0 =>
        /\ \/ SumWeights(df, MinExponent(df)) = Pow10(-MinExponent(df))
           \/ DecSumWeights(df, DecZero) = Dec(1, 0)
        /\ TargetValuesExact

\* C16 amended: for a total above 0 the current_weight values sum to 1
\* within the rounding of the quotients, half a unit of the last digit of
\* each: |sum - 1| <= 5 * 10^-DecimalPrec * sum of |current_weight|; and
\* every target_value is target_weight * total_value.
C16_WeightsSumToOneWithinRounding ==
    Calculated /\ SumValues(df) > 0 =>
        LET e == MinExponent(df)
        IN  /\ 2 * Abs(SumWeights(df, e) - Pow10(-e)) * Pow10(DecimalPrec - 1)
                  <= SumWeightMagnitudes(df, e)
            /\ TargetValuesExact

\* C16 witness: three rows worth a third of the total each, whose weights
\* sum to less than 1.
C16_Witness ==
    /\ Calculated
    /\ SumValues(df) > 0
    /\ Len(df) = 3
    /\ \A i \in Rows : df[i].current_value * 3 = SumValues(df)
    /\ SumWeights(df, MinExponent(df)) < Pow10(-MinExponent(df))

\* Quantities and values are not negative, target weights lie in [0, 1].
InputsInRange ==
    \A i \in Rows :
        /\ df[i].current_quantity >= 0
        /\ df[i].current_value >= 0
        /\ df[i].target_weight \in 0..WeightDen

\* C17: for such inputs every absolute_drift calculate() returns lies in
\* [-1, 1]: it is -1, +1 or a value strictly between the two.
C17_DriftWithinUnitRange ==
    Calculated /\ InputsInRange =>
        \A i \in Rows :
            /\ DecLessEq(Dec(-1, 0), df[i].absolute_drift)
            /\ DecLessEq(df[i].absolute_drift, Dec(1, 0))

\* C17 witness: inputs in range with a row of drift -1, a row of drift +1
\* and a row whose drift is a rounded difference strictly between.
C17_Witness ==
    /\ Calculated
    /\ InputsInRange
    /\ \E i \in Rows : df[i].absolute_drift = Dec(-1, 0)
    /\ \E i \in Rows : df[i].absolute_drift = Dec(1, 0)
    /\ \E i \in Rows : /\ df[i].absolute_drift.e = -DecimalPrec
                        /\ DecLess(Dec(-1, 0), df[i].absolute_drift)
                        /\ DecLess(df[i].absolute_drift, Dec(1, 0))

\* Without the condition on the inputs the drift leaves [-1, 1].
C17_DriftWithinUnitRangeForAnyInput ==
    Calculated =>
        \A i \in Rows :
            /\ DecLessEq(Dec(-1, 0), df[i].absolute_drift)
            /\ DecLessEq(df[i].absolute_drift, Dec(1, 0))

----------------------------------------------------------------------------
(* Claims about DriftRebalancer.on_trading_iteration, under SpecIteration *)

\* rebalance() was called.
Rebalancing ==
    pc \in {"sell", "refresh", "buy", "done", "aborted_in_sell", "aborted_in_buy"}

\* Some row has |absolute_drift| above the threshold.
SomeDriftAboveThreshold ==
    \E i \in Rows :
        LET e == Min(df[i].absolute_drift.e, -1)
        IN  Abs(Aligned(df[i].absolute_drift, e))
                > Aligned(DecTenths(absolute_drift_threshold), e)

\* Targets {SPY 0.60, TLT 0.40}, threshold 0.20, SPY worth spy and TLT worth
\* 100 - spy (3000/7000 and 5000/5000 in units of 100).
ExampleOfSpec(spy) ==
    /\ target_weights = << <<"SPY", 6>>, <<"TLT", 4>> >>
    /\ absolute_drift_threshold = 2
    /\ positions = <<Held("SPY", spy, 1), Held("TLT", 100 - spy, 1)>>

DriftsAre(spy_drift, tlt_drift) ==
    /\ Len(df) = 2
    /\ df[1].symbol = "SPY" /\ df[1].absolute_drift = DecTenths(spy_drift)
    /\ df[2].symbol = "TLT" /\ df[2].absolute_drift = DecTenths(tlt_drift)

\* The rebalance runs exactly when a drift exceeds the threshold, and the
\* 5000/5000 holdings place no order.
RebalanceIffAboveThreshold ==
    /\ Rebalancing => SomeDriftAboveThreshold
    /\ pc = "skipped" => ~SomeDriftAboveThreshold /\ orders = <<>>
    /\ ExampleOfSpec(50) /\ pc # "calculate_raised" =>
          /\ DriftsAre(1, -1)
          /\ pc \in {"threshold", "skipped"}
          /\ orders = <<>>
    /\ ExampleOfSpec(30) /\ pc # "calculate_raised" =>
          /\ DriftsAre(3, -3)
          /\ pc # "skipped"

IsOrderFor(o, symbol, side) == o.symbol = symbol /\ o.side = side

\* C18 as stated: the rebalance runs exactly when a drift exceeds the
\* threshold; the 5000/5000 holdings place no order; the 3000/7000 holdings
\* place a TLT sell and then a SPY buy.
C18_RebalanceIffDriftExceedsThreshold ==
    /\ RebalanceIffAboveThreshold
    /\ ExampleOfSpec(30) /\ pc = "done" =>
          /\ Len(orders) = 2
          /\ IsOrderFor(orders[1], "TLT", "sell")
          /\ IsOrderFor(orders[2], "SPY", "buy")

\* C18 amended: the rebalance runs exactly when a drift exceeds the
\* threshold; the 5000/5000 holdings place no order; the 3000/7000 holdings
\* place a TLT sell and then at most one more order, a SPY buy of
\* min(order value, refreshed cash) / limit price whole units, placed only
\* when that quantity is above 0 (never when the refreshed cash is 0).
C18_RebalanceIffThresholdBuyNeedsCash ==
    /\ RebalanceIffAboveThreshold
    /\ ExampleOfSpec(30) /\ pc = "done" =>
          /\ Len(orders) \in {1, 2}
          /\ IsOrderFor(orders[1], "TLT", "sell")
          /\ Len(orders) = 2 =>
                /\ IsOrderFor(orders[2], "SPY", "buy")
                /\ orders[2].quantity > 0
                /\ orders[2].quantity =
                      WholeUnits(Min(df[1].target_value - df[1].current_value,
                                     broker_cash),
                                 orders[2].limit_price)
          /\ broker_cash = 0 => Len(orders) = 1

\* C18 witness: the 3000/7000 holdings after a finished rebalance that
\* placed the TLT sell and a SPY buy cut down to the cash at hand.
C18_Witness ==
    /\ ExampleOfSpec(30)
    /\ pc = "done"
    /\ Len(orders) = 2
    /\ IsOrderFor(orders[1], "TLT", "sell") /\ orders[1].quantity = 30
    /\ IsOrderFor(orders[2], "SPY", "buy") /\ orders[2].quantity = 7

\* Holdings of 4000/6000 drift by exactly the threshold and place no order.
C18_AtThresholdSkipped ==
    /\ ExampleOfSpec(40)
    /\ pc = "skipped"
    /\ DriftsAre(2, -2)

----------------------------------------------------------------------------
(* Claims about the sell pass and about failures, under SpecRebalance *)

\* The first loop has gone past row i.
SellPassPassed(i) ==
    \/ pc \in {"sell", "aborted_in_sell"} /\ idx > i
    \/ pc \in {"refresh", "buy", "done", "aborted_in_buy"}

SellsForRow(i) ==
    {k \in 1..Len(orders) : orders[k].side = "sell" /\ orders[k].row = i}

\* C19: for every row with absolute_drift -1 the sell pass submits one sell
\* order, no more, and its quantity is the current_quantity of the row.
C19_SellAllSellsWholeQuantity ==
    \A i \in Rows :
        df[i].absolute_drift = Dec(-1, 0) =>
            /\ \A k \in SellsForRow(i) :
                  /\ orders[k].quantity = df[i].current_quantity
                  /\ orders[k].symbol = df[i].symbol
            /\ Cardinality(SellsForRow(i)) <= 1
            /\ SellPassPassed(i) => Cardinality(SellsForRow(i)) = 1

\* C19 witness: a finished call that sold the 10 units of a row with drift
\* -1 at a limit price at which the value of the row is not 10 units.
C19_Witness ==
    /\ pc = "done"
    /\ \E i \in Rows : \E k \in SellsForRow(i) :
          /\ df[i].absolute_drift = Dec(-1, 0)
          /\ df[i].current_quantity = 10
          /\ orders[k].quantity = 10
          /\ WholeUnits(df[i].current_value, orders[k].limit_price) # 10

\* C20 as stated: no failure of a price lookup ends rebalance() early, and
\* an instrument whose lookup gave no usable price (the failure value -1,
\* hence a negative limit price) gets no order.
C20_FailureSkipsInstrument ==
    /\ pc \notin {"aborted_in_sell", "aborted_in_buy"}
    /\ \A k \in 1..Len(orders) : orders[k].limit_price > 0

----------------------------------------------------------------------------
(* Claims about the pause, the cash refresh and the buy pass, under
   SpecRebalance *)

PausesDue == IF is_backtesting THEN 0 ELSE 1

\* Where the pause and the balance re-read stand at each position of
\* rebalance().
PauseAndRefreshInPlace ==
    /\ pc \in {"sell", "aborted_in_sell"} =>
          sleeps = 0 /\ balance_reads = 0 /\ BuyIndexes = {}
    /\ pc = "refresh" =>
          sleeps = PausesDue /\ balance_reads = 0 /\ BuyIndexes = {}
    /\ pc \in {"buy", "done", "aborted_in_buy"} =>
          sleeps = PausesDue /\ balance_reads = 1

\* What a step of rebalance() may do to the pause, the re-read and the orders.
PauseAndRefreshStep ==
    /\ sleeps' # sleeps =>
          /\ pc = "sell" /\ idx > Len(df) /\ ~is_backtesting
          /\ sleeps' = sleeps + 1
          /\ orders' = orders
    /\ balance_reads' # balance_reads =>
          /\ pc = "refresh" /\ pc' = "buy"
          /\ sleeps = PausesDue
          /\ balance_reads' = balance_reads + 1
          /\ orders' = orders
    /\ orders' # orders =>
          /\ Len(orders') = Len(orders) + 1
          /\ orders'[Len(orders')].side = "sell" =>
                pc = "sell" /\ sleeps = 0 /\ balance_reads = 0
          /\ orders'[Len(orders')].side = "buy" =>
                pc = "buy" /\ balance_reads = 1
    /\ pc = "buy" /\ idx' # idx => balance_reads = 1

\* C21: the pause is taken exactly when the strategy is not backtesting,
\* after the last sell; the balance re-read follows the pause; no buy row is
\* evaluated before the re-read; the balance is re-read once per call.
C21_PauseThenRefreshThenBuys ==
    [](PauseAndRefreshInPlace) /\ [][PauseAndRefreshStep]_vars

\* C21 witness: a finished call outside a backtest with sells, one pause,
\* one re-read and buys.
C21_Witness ==
    /\ pc = "done"
    /\ ~is_backtesting
    /\ sleeps = 1
    /\ balance_reads = 1
    /\ SellIndexes # {}
    /\ BuyIndexes # {}

\* The buy order placed for row i, if any.
BuysForRow(i) ==
    {k \in 1..Len(orders) : orders[k].side = "buy" /\ orders[k].row = i}

OrderValue(i) == df[i].target_value - df[i].current_value

\* The cash estimate after the buy order k was placed.
CashAfterOrder(k) ==
    IF \E j \in BuyIndexes : j > k
    THEN orders[CHOOSE j \in BuyIndexes :
                    j > k /\ \A l \in BuyIndexes : l > k => j <= l].cash_before
    ELSE cash_position

\* The second loop has gone past row i.
BuyPassPassed(i) ==
    \/ pc \in {"buy", "aborted_in_buy"} /\ idx > i
    \/ pc = "done"

\* C22: in the buy pass a row whose whole-unit quantity is <= 0 places no
\* order and leaves the cash estimate alone, and the rows after it are still
\* evaluated; a row whose quantity is > 0 places one buy and takes
\* min(target_value - current_value, cash) off the cash estimate.
C22_BuyRowFrame ==
    pc \in {"buy", "done", "aborted_in_buy"} =>
        /\ BuyIndexes = {} => cash_position = broker_cash
        /\ \A k \in BuyIndexes :
              /\ orders[k].quantity > 0
              /\ orders[k].quantity =
                    WholeUnits(Min(OrderValue(orders[k].row), orders[k].cash_before),
                               orders[k].limit_price)
              /\ (\A j \in BuyIndexes : j >= k) => orders[k].cash_before = broker_cash
              /\ CashAfterOrder(k) =
                    orders[k].cash_before
                        - Min(OrderValue(orders[k].row), orders[k].cash_before)
        /\ \A i \in Rows :
              /\ Cardinality(BuysForRow(i)) <= 1
              /\ BuysForRow(i) # {} => DriftIsPositive(df[i])
        /\ pc = "done" => idx = Len(df) + 1

\* C22 witness: a finished buy pass in which a row with a positive drift got
\* no order, a later row got one, and the cash taken off for that order is
\* not quantity * limit_price.
C22_Witness ==
    /\ pc = "done"
    /\ \E i \in Rows : \E k \in BuyIndexes :
          /\ DriftIsPositive(df[i])
          /\ BuysForRow(i) = {}
          /\ orders[k].row > i
          /\ OnNotionalScale(orders[k].cash_before - CashAfterOrder(k))
                # Notional(orders[k])

\* C23 as stated: every limit price is last_price * (1 - acceptable_slippage)
\* for a sell and last_price * (1 + acceptable_slippage) for a buy, for one
\* of the prices get_last_price answers.
C23_LimitPriceUsesSlippageItself ==
    \A k \in 1..Len(orders) :
        \E last_price \in LastPrices :
            orders[k].limit_price * SlipDen =
                last_price * LimitDen *
                    (IF orders[k].side = "sell"
                     THEN SlipDen - acceptable_slippage
                     ELSE SlipDen + acceptable_slippage)

----------------------------------------------------------------------------
(* Claims about the request executors, under SpecEndpoint *)

RateLimited == {i \in 1..Len(answers) : answers[i] = "429"}
RateLimitSleep(method) ==
    CASE method = "get" -> GetRateLimitSleep
      [] method = "post" -> PostRateLimitSleep
      [] method = "delete" -> DeleteRateLimitSleep
LastAnswer == answers[Len(answers)]

C25_NotFoundIsTerminal ==
    \A i \in 1..Len(answers) :
        answers[i] = "404" =>
            /\ i = Len(answers)
            /\ epc = "returned"
            /\ api_result \in {ErrorMarker, None}

OtherFailures == {"500", "exception"}

\* C26: a get_from_endpoint call made with allow_fail=False returns only
\* the body of a 200 answer, whatever answers precede it; a call made with
\* allow_fail=True returns after its first attempt that ends in another
\* non-2xx status or a network exception, with the error marker (None when
\* the caller asked for no error markers).
C26_ErrorsRetriedOrReturnedOnce ==
    (epc # "idle" /\ request.method = "get") =>
        /\ (~request.allow_fail /\ epc = "returned") =>
                LastAnswer = "200" /\ api_result = JsonBody
        /\ (request.allow_fail /\ Len(answers) > 0 /\ LastAnswer \in OtherFailures) =>
                /\ epc = "returned"
                /\ api_result \in {ErrorMarker, None}
                /\ \A i \in 1..(Len(answers) - 1) : answers[i] \notin OtherFailures

----------------------------------------------------------------------------
(* Claims about the session of InteractiveBrokersRESTData, under           *)
(* SpecSession                                                             *)

PingReturned == spc = "ready" /\ ping_call # None

\* C27: for each category, a ping_iserver / ping_portfolio call made within
\* 10 seconds of the previous liveness probe of the category sends no
\* request, and a call made more than 10 seconds after it sends a probe.
C27_ProbeOnlyAfterFreshnessWindow ==
    PingReturned =>
        /\ ping_call.previous = "within" => ping_call.probes = 0
        /\ ping_call.previous = "longer" => ping_call.probes > 0

\* C28: the last-ping timestamp of a category is written on every liveness
\* attempt of the category, failed or not: once ping_iserver /
\* ping_portfolio has sent a probe, the timestamp is there and is not older
\* than the probe.
C28_TimestampOnEveryAttempt ==
    \A c \in Categories :
        probed_at[c] # None =>
            /\ LastPing(c) # None
            /\ Val(LastPing(c)) >= Val(probed_at[c])

\* C29: the account identifier is never discarded or changed once set: no
\* step of start, fetch_account_id, ping_iserver, ping_portfolio or of a
\* data method, whatever the gateway answers, changes an account_id that
\* is not None.
C29_AccountIdKept ==
    [][account_id # None => account_id' = account_id]_vars

\* A configured account id after start(), whose fetch_account_id sent no
\* request, after a ping with a failed probe and a data call that
\* returned an error.
C29_Witness ==
    /\ spc = "ready"
    /\ start_return = Some(143)
    /\ account_id = ConfiguredId
    /\ ping_call # None
    /\ ping_call.probes > 1
    /\ data_response = ErrorMarker

\* C30: authentication and probe failures are never returned to the
\* caller: start() has returned only after is_authenticated() succeeded
\* and with an account_id that is not None, and ping_iserver /
\* ping_portfolio have returned only after a probe of their category
\* succeeded or the freshness window applied.
C30_ReturnsOnlyAuthenticated ==
    /\ start_return # None => authenticated /\ account_id # None
    /\ PingReturned => ping_call.returned

----------------------------------------------------------------------------
(* Claims about get_market_snapshot and get_quote, under SpecSnapshot *)

SnapshotLooped == qpc # "idle" /\ retries > 0
SnapshotReturned == qpc # "fetching" /\ SnapshotLooped

\* C31: get_market_snapshot fetches again only while a requested field is
\* missing from the response, makes at most 500 fetches, sleeps before each
\* fetch from the fourth on, and returns a mapping with requested field
\* names only; a response that is None, an error object or an empty list
\* ends the loop after that fetch.
C31_SnapshotLoopBounded ==
    SnapshotLooped =>
        /\ retries <= max_retries
        /\ snapshot_sleeps = IF retries > QuickFetches THEN retries - QuickFetches ELSE 0
        /\ missing_fields <=>
                (HasRow(snapshot) /\ FieldsToGet(fields) \ DOMAIN snapshot.rows[1] # {})
        /\ ~HasRow(snapshot) => ~missing_fields
        /\ SnapshotReturned =>
                /\ ~missing_fields \/ retries = max_retries
                /\ output # None
                /\ DOMAIN Val(output) \subseteq fields

\* The call that gave up after 500 fetches and returned what it had.
C31_Witness ==
    /\ qpc = "returned"
    /\ retries = max_retries
    /\ missing_fields
    /\ output # None
    /\ DOMAIN Val(output) # {}
    /\ snapshot_sleeps = max_retries - QuickFetches

\* C32: get_quote returns None for a snapshot bid or ask of exactly -1, the
\* parsed number with the live flag false for a last price that starts with
\* "C" and the live flag true for any other price, and returns a value
\* rather than raising when the snapshot lacks a requested field.
C32_QuoteNeverRaises ==
    quote # None =>
        /\ Val(quote).kind # "KeyError"
        /\ Val(quote).kind = "quote" =>
            LET row == snapshot.rows[1]
                q == Val(quote)
            IN  /\ \A n \in {"bid", "ask"} :
                        q.values[n] # Num(-1) /\
                        (Val(output)[n] = Num(-1) => q.values[n] = NoValue)
                /\ row["31"] \in DOMAIN AfterPrefix =>
                        ~q.trading /\ q.values["price"] = Num(FloatOf[AfterPrefix[row["31"]]])
                /\ row["31"] \notin DOMAIN AfterPrefix => q.trading

----------------------------------------------------------------------------
(* Claims about get_open_orders, under SpecOrders *)

\* The gateway reports no open orders: an empty list, or an object whose
\* "orders" is empty.
ReportsNoOrders(r) ==
    r.kind = "empty_list" \/ (r.kind = "orders" /\ r.orders = <<>>)

\* C33: get_open_orders never returns an order whose status is Cancelled
\* or Filled, and returns an empty list rather than failing when the
\* gateway reports no open orders.
C33_OpenOrdersFilteredNeverFails ==
    /\ \A i \in 1..Len(open_orders) : open_orders[i].status \notin {"Cancelled", "Filled"}
    /\ (orders_fetches > 0 /\ ReportsNoOrders(orders_response)) =>
            opc = "returned" /\ open_orders = <<>>

----------------------------------------------------------------------------
(* Claims about the quantities of the orders, under SpecRebalance *)

PartialSellRow(i) == DriftIsNegative(df[i]) /\ ~DriftIsMinusOne(df[i])

\* value / limit_price truncated toward zero, for a value in money and a
\* limit price in 1/LimitDen.
IsTruncatedQuotient(q, value, limit_price) ==
    LET v == value * LimitDen
        l == WeightDen * limit_price
    IN  /\ Abs(q) * Abs(l) <= Abs(v)
        /\ Abs(v) < (Abs(q) + 1) * Abs(l)
        /\ q # 0 => ((q > 0) <=> ((v > 0) <=> (l > 0)))

\* C34: for every row with absolute_drift < 0 other than -1 the sell pass
\* submits one sell, whose quantity is (current_value - target_value) /
\* limit_price truncated toward zero and whose price is the sell limit
\* price of the last price read for the row.
C34_PartialSellQuantity ==
    \A i \in Rows :
        PartialSellRow(i) =>
            /\ \A k \in SellsForRow(i) :
                  /\ orders[k].symbol = df[i].symbol
                  /\ \E last_price \in LastPrices :
                        orders[k].limit_price =
                            last_price * (LimitDen - acceptable_slippage)
                  /\ IsTruncatedQuotient(orders[k].quantity,
                                         df[i].current_value - df[i].target_value,
                                         orders[k].limit_price)
            /\ Cardinality(SellsForRow(i)) <= 1
            /\ SellPassPassed(i) => Cardinality(SellsForRow(i)) = 1

\* A finished call with a partial sell of some units whose value is less
\* than the value to shed.
C34_Witness ==
    /\ pc = "done"
    /\ \E i \in Rows : \E k \in SellsForRow(i) :
          /\ PartialSellRow(i)
          /\ orders[k].quantity > 0
          /\ orders[k].quantity * WeightDen * orders[k].limit_price
                < (df[i].current_value - df[i].target_value) * LimitDen

\* C35: every order that rebalance() submits, in the sell pass and in the
\* buy pass, has a strictly positive quantity.
C35_EveryQuantityPositive ==
    \A k \in 1..Len(orders) : orders[k].quantity > 0

\* C36: no sell order of the sell pass has a quantity greater than the
\* current_quantity of its row.
C36_SellWithinHolding ==
    \A i \in Rows : \A k \in SellsForRow(i) :
        orders[k].quantity <= df[i].current_quantity

----------------------------------------------------------------------------
(* Claims about the threshold of the strategy, under SpecIteration *)

\* calculate() has returned the table of this iteration.
TableBuilt == pc \notin {"idle", "iteration", "calculate_raised"}

\* Some row that is not the quote asset drifts by exactly -1 or +1.
SomeWholeDrift ==
    \E i \in Rows :
        /\ ~df[i].is_quote_asset
        /\ df[i].absolute_drift \in {Dec(-1, 0), Dec(1, 0)}

----------------------------------------------------------------------------
(* Claim about is_authenticated, under SpecEndpoint *)

\* C38: is_authenticated(), and the probe of ping_iserver / ping_portfolio,
\* reports success only if the last attempt of its request was answered
\* with HTTP 200, and reports not authenticated after every sequence of
\* answers that ends otherwise.
C38_AuthenticatedOnlyOnOk ==
    (epc = "returned" /\ request = AuthCheck) =>
        (IsAuthenticated([to_return |-> api_result]) <=> LastAnswer = "200")

----------------------------------------------------------------------------
(* Claim about add_position, under SpecDrift *)

TargetSymbols == {target_weights[i][1] : i \in 1..Len(target_weights)}

\* One row per symbol: the targets first, in their order and with their
\* weights, then the other symbols with target_weight 0.
OneRowPerSymbol ==
    /\ \A i, j \in Rows : df[i].symbol = df[j].symbol => i = j
    /\ Len(df) >= Len(target_weights)
    /\ \A i \in 1..Len(target_weights) :
          /\ df[i].symbol = target_weights[i][1]
          /\ df[i].target_weight = target_weights[i][2]
    /\ \A i \in (Len(target_weights) + 1)..Len(df) :
          /\ df[i].symbol \notin TargetSymbols
          /\ df[i].target_weight = 0

\* What an add_position call may change: three fields of the one row of
\* its symbol, or one new row at the end for a symbol that had none.
AddPositionStep ==
    (pc = "positions" /\ pc' = "positions") =>
        /\ \A i \in 1..Len(df) :
              /\ i <= Len(df')
              /\ df'[i].symbol = df[i].symbol
              /\ df'[i].target_weight = df[i].target_weight
              /\ df'[i].current_weight = df[i].current_weight
              /\ df'[i].target_value = df[i].target_value
              /\ df'[i].absolute_drift = df[i].absolute_drift
        /\ \/ /\ Len(df') = Len(df)
              /\ \A i, j \in 1..Len(df) : df'[i] # df[i] /\ df'[j] # df[j] => i = j
           \/ /\ Len(df') = Len(df) + 1
              /\ ~HasSymbol(df, df'[Len(df')].symbol)
              /\ df'[Len(df')].target_weight = 0
              /\ \A i \in 1..Len(df) : df'[i] = df[i]

\* C39: after any sequence of add_position calls the table holds one row
\* per symbol of the targets and the added positions: a call for a symbol
\* that has a row overwrites is_quote_asset, current_quantity and
\* current_value of that row and neither adds a row nor changes the
\* target_weight or the place of any row; a call for a symbol without a
\* row appends one with target_weight 0.
C39_OneRowPerSymbol ==
    [](pc = "positions" => OneRowPerSymbol) /\ [][AddPositionStep]_vars

\* A table with the rows of its two targets, the first overwritten with a
\* holding, and an appended row of a third symbol.
C39_Witness ==
    /\ pc = "positions"
    /\ Len(target_weights) = 2
    /\ Len(df) = 3
    /\ df[1].current_quantity = 10
    /\ df[2].current_quantity = 0
    /\ df[3].current_quantity = 5
    /\ df[3].target_weight = 0

====
